---- MODULE Spec2Model ----
(***************************************************************************)
(* A model of openhub: the repository store, the credential store, the     *)
(* git front ends (SSH and HTTP), the management API with the replication  *)
(* handshake and receiver, the admin tool's add-replica / remove-replica   *)
(* and the replication pipeline.                                           *)
(*                                                                         *)
(* Strings that the code formats, splits or compares character by          *)
(* character (owner and repository names, instance ids, user names, paths) *)
(* are sequences of one-character strings, so that formatting and parsing  *)
(* are computed as the code computes them.                                 *)
(***************************************************************************)
EXTENDS Integers, Sequences, FiniteSets, TLC

VARIABLES
    repos,    \* [instance -> [<<owner, name>> -> repository]]: the bare directories under the storage root
    users,    \* [instance -> [username -> user]]: the files under <root>/users
    queue,    \* [instance -> sequence of jobs]: Manager.queue
    closed,   \* [instance -> BOOLEAN]: Manager.queue has been closed by Stop
    worker,   \* [instance -> [worker -> local state of Manager.worker / Manager.replicate]]
    cli,      \* [instance -> local state of a running admin add-replica]
    sent,     \* the last /replicate request a pipeline sent, with the answer it got
    last,     \* the last request a front end or the API answered, with its answer
    clock,    \* time.Now(): the management operations and ticks so far
    sessions, \* the git sessions (SSH execs, HTTP git requests) served so far
    instance, \* instance.json of one storage root and the LoadOrCreate calls running against it
    handler   \* the API requests instance A is serving step by step, and its temp directory

vars == <<repos, users, queue, closed, worker, cli, sent, last, clock, sessions, instance, handler>>

-----------------------------------------------------------------------------
(* Bounds of the model *)

\* management operations (CLI runs, API requests) and ticks of the sync timer
\* in one behaviour; the steps of a worker are not counted
MaxClock == 4

\* git sessions in one behaviour
MaxSessions == 1

\* length of a repository's replicas list
MaxReplicas == 2

\* stands for the channel capacity make(chan Job, 100)
QueueCap == 2

\* workers of the pool (Start(3) in runServer)
NumWorkers == 2

\* LoadOrCreate calls against one storage root
MaxLoads == 6

-----------------------------------------------------------------------------
(* Characters and strings *)

\* the characters that occur, in ASCII order
Ascii == <<"'", "-", ".", "/", "a", "b", "c", "e", "g", "i", "j", "l", "n", "o", "p", "r", "s", "t", "x">>

Code(c) == CHOOSE k \in 1..Len(Ascii) : Ascii[k] = c

HasPrefix(s, p) == Len(s) >= Len(p) /\ SubSeq(s, 1, Len(p)) = p

HasSuffix(s, p) == Len(s) >= Len(p) /\ SubSeq(s, Len(s) - Len(p) + 1, Len(s)) = p

TrimPrefix(s, p) == IF HasPrefix(s, p) THEN SubSeq(s, Len(p) + 1, Len(s)) ELSE s

TrimSuffix(s, p) == IF HasSuffix(s, p) THEN SubSeq(s, 1, Len(s) - Len(p)) ELSE s

\* bytewise order of two strings (the order os.ReadDir lists file names in)
RECURSIVE StrLess(_, _)
StrLess(s, t) ==
    IF t = <<>> THEN FALSE
    ELSE IF s = <<>> THEN TRUE
    ELSE IF Head(s) = Head(t) THEN StrLess(Tail(s), Tail(t))
    ELSE Code(Head(s)) < Code(Head(t))

\* strings.Split(s, sep) for a one-character separator
RECURSIVE SplitAt(_, _, _)
SplitAt(s, sep, cur) ==
    IF s = <<>> THEN <<cur>>
    ELSE IF Head(s) = sep THEN <<cur>> \o SplitAt(Tail(s), sep, <<>>)
    ELSE SplitAt(Tail(s), sep, Append(cur, Head(s)))

Split(s, sep) == SplitAt(s, sep, <<>>)

DotGit == <<".", "g", "i", "t">>
DotJson == <<".", "j", "s", "o", "n">>
ReplPrefix == <<"r", "e", "p", "l", "i", "c", "a", "t", "i", "o", "n", "-">>

\* fmt.Sprintf("replication-%s-%s-%s", owner, repo, instanceID)
ReplicationUser(owner, repo, instanceID) ==
    ReplPrefix \o owner \o <<"-">> \o repo \o <<"-">> \o instanceID

-----------------------------------------------------------------------------
(* The values requests are drawn from *)

Instances == {"A", "B"}

NameAB == <<"a", "-", "b">>
NameA == <<"a">>
NameC == <<"c">>
NameBC == <<"b", "-", "c">>

\* the repositories requests name: a-b/c and a/b-c
RepoIds == {<<NameAB, NameC>>, <<NameA, NameBC>>}

\* the account names of people
People == {NameAB, NameA}

\* instance ids (uuid.New().String() in LoadOrCreate): one per instance
InstanceID(n) == IF n = "A" THEN <<"i">> ELSE <<"j">>

InstIds == {InstanceID(n) : n \in Instances}

Tokens == {"t1", "t2"}
Keys == {"k1", "k2"}

\* an SSH public key line, as its whitespace-separated fields
SSHKeys == {<<"ssh-rsa", "AAA1">>, <<"ssh-rsa", "AAA1", "me@host">>, <<"ssh-rsa", "AAA2">>}

\* repository content: the refs a bare repository or a bundle holds
EmptyRefs == "r0"
Contents == {"r0", "r1"}


-----------------------------------------------------------------------------
(* Repository store (storage.Storage). A store is a function from the      *)
(* <<owner, name>> of every existing bare directory to its content:        *)
(* [meta |-> the document openhub.json, refs |-> the refs of the repo].    *)
(* Metadata keeps the fields the code reads: private, replicas and         *)
(* replica_of; an absent replica_of (a nil pointer) is the empty sequence, *)
(* a present one the sequence holding the ReplicaSource record.            *)

NoReplicaOf == <<>>

ReplicaSource(instanceID, invitationKey) ==
    <<[instance_id |-> instanceID, invitation_key |-> invitationKey]>>

\* the defaults CreateRepo writes
DefaultMeta == [private |-> FALSE, replicas |-> <<>>, replica_of |-> NoReplicaOf]

RepoExists(st, owner, name) == <<owner, name>> \in DOMAIN st

GetMetadata(st, owner, name) == st[<<owner, name>>].meta

SetMetadata(st, owner, name, meta) == [st EXCEPT ![<<owner, name>>].meta = meta]

StoreCreateRepo(st, owner, name) ==
    st @@ (<<owner, name>> :> [meta |-> DefaultMeta, refs |-> EmptyRefs])

StoreDeleteRepo(st, owner, name) ==
    [id \in DOMAIN st \ {<<owner, name>>} |-> st[id]]

-----------------------------------------------------------------------------
(* Credential store (auth.AuthStore). A store is a function from the name  *)
(* of every user file to [tokens |-> APITokens, keys |-> SSHKeys].         *)

UserFile(username) == username \o DotJson

SeqRange(s) == {s[k] : k \in 1..Len(s)}

AuthOK(username) == [ok |-> TRUE, user |-> username]
AuthErr == [ok |-> FALSE, user |-> <<>>]

\* the first element of a set of user names in the order of os.ReadDir
FirstListed(us) ==
    CHOOSE u \in us : \A v \in us \ {u} : StrLess(UserFile(u), UserFile(v))

ValidateAPIToken(au, token) ==
    LET owners == {u \in DOMAIN au : token \in SeqRange(au[u].tokens)}
    IN  IF owners = {} THEN AuthErr ELSE AuthOK(FirstListed(owners))

normalizeSSHKey(key) ==
    IF Len(key) >= 2 THEN <<key[1], key[2]>> ELSE key

ValidateSSHKey(au, key) ==
    LET owners == {u \in DOMAIN au :
                      \E k \in SeqRange(au[u].keys) : normalizeSSHKey(k) = normalizeSSHKey(key)}
    IN  IF owners = {} THEN AuthErr ELSE AuthOK(FirstListed(owners))

AuthCreateUser(au, username) ==
    au @@ (username :> [tokens |-> <<>>, keys |-> <<>>])

AuthCreateUserWithToken(au, username, token) ==
    au @@ (username :> [tokens |-> <<token>>, keys |-> <<>>])

-----------------------------------------------------------------------------
(* Answers. Every front end and API handler leaves the answer it gave in   *)
(* last: the HTTP status (or the SSH exit status), the error text, whether *)
(* the engine was started and whether the Basic challenge header was set.  *)

Answer(op, n, owner, repo, user, verb, status, msg, engine, challenge) ==
    [op |-> op, inst |-> n, owner |-> owner, repo |-> repo, user |-> user, verb |-> verb,
     status |-> status, msg |-> msg, engine |-> engine, challenge |-> challenge]

NoAnswer == Answer("none", "A", <<>>, <<>>, <<>>, "", 0, "", FALSE, FALSE)

\* a management operation or a tick takes one unit of time
Step == clock < MaxClock /\ clock' = clock + 1 /\ UNCHANGED <<sessions, instance, handler>>

\* a git session is served
Session == sessions < MaxSessions /\ sessions' = sessions + 1 /\ UNCHANGED <<clock, instance, handler>>


-----------------------------------------------------------------------------
(* The admin tool's user commands (cmd/openhub/user.go)                    *)

\* the tokens some user of instance n already holds
TokensInUse(n) == UNION {SeqRange(users[n][u].tokens) : u \in DOMAIN users[n]}

\* openhub user create <username>
UserCreate(n, u) ==
    /\ Step
    /\ u \notin DOMAIN users[n]
    /\ users' = [users EXCEPT ![n] = AuthCreateUser(@, u)]
    /\ UNCHANGED <<repos, queue, closed, worker, cli, sent, last>>

\* openhub user add-key <username> <key-name> <ssh-public-key>
UserAddKey(n, u, key) ==
    /\ Step
    /\ u \in DOMAIN users[n]
    /\ users' = [users EXCEPT ![n][u].keys = Append(@, key)]
    /\ UNCHANGED <<repos, queue, closed, worker, cli, sent, last>>

\* openhub user generate-token <username> <token-name>: 32 random bytes, which
\* repeat no token in use
UserGenerateToken(n, u, token) ==
    /\ Step
    /\ u \in DOMAIN users[n]
    /\ token \notin TokensInUse(n)
    /\ users' = [users EXCEPT ![n][u].tokens = Append(@, token)]
    /\ UNCHANGED <<repos, queue, closed, worker, cli, sent, last>>

-----------------------------------------------------------------------------
(* Replication queue (replication.Manager)                                 *)

\* Manager.Queue: a non-blocking send, dropped when the channel is full
\* Manager.Queue as a send that always finds room
EnqueueUnbounded(q, owner, repo) == Append(q, <<owner, repo>>)

Enqueue(q, owner, repo) ==
    IF Len(q) < QueueCap THEN Append(q, <<owner, repo>>) ELSE q

-----------------------------------------------------------------------------
(* Git front ends (internal/git)                                           *)

ReceivePack == "git-receive-pack"
UploadPack == "git-upload-pack"

\* strings.HasPrefix(gitCmd, "git-")
IsGitCommand(verb) == verb \in {ReceivePack, UploadPack, "git-upload-archive"}

\* the first two segments of a path, or two empty strings
FirstTwo(parts) ==
    IF Len(parts) >= 2 THEN <<parts[1], parts[2]>> ELSE <<<<>>, <<>>>>

\* parseRepoPath of the SSH front end
parseRepoPath(path) ==
    FirstTwo(Split(TrimSuffix(TrimPrefix(path, <<"/">>), DotGit), "/"))

\* HTTPServer.parseRepoPath, of a URL path whose route suffix (/info/refs,
\* /git-upload-pack, /git-receive-pack) is already cut off; request paths are
\* drawn clean, so that path.Clean leaves them as they are
HTTPparseRepoPath(urlPath) ==
    FirstTwo(Split(TrimSuffix(TrimPrefix(urlPath, <<"/">>), DotGit), "/"))

\* HTTPServer.getAuthenticatedUser without the comparison of the token's
\* user with the Basic username
getAuthenticatedUserAnyToken(au, creds) ==
    IF creds = <<>> \/ creds[1] = <<>> \/ creds[2] = ""
    THEN <<>>
    ELSE LET v == ValidateAPIToken(au, creds[2])
         IN  IF ~v.ok THEN <<>>
             ELSE creds[1]

\* HTTPServer.getAuthenticatedUser: creds is <<>> (no Basic header) or
\* <<username, password>>
getAuthenticatedUser(au, creds) ==
    IF creds = <<>> \/ creds[1] = <<>> \/ creds[2] = ""
    THEN <<>>
    ELSE LET v == ValidateAPIToken(au, creds[2])
         IN  IF ~v.ok THEN <<>>
             ELSE IF v.user # creds[1] THEN <<>>
             ELSE creds[1]

\* AccessDecision with the owner of a push checked before replica_of
AccessDecisionOwnerFirst(meta, needsWrite, username, owner) ==
    IF needsWrite
    THEN IF username # owner THEN "owner"
         ELSE IF meta.replica_of # NoReplicaOf THEN "replica"
         ELSE "allow"
    ELSE IF meta.private /\ username # owner THEN "private"
         ELSE "allow"

\* AccessDecision with reads never refused
AccessDecisionPublicRead(meta, needsWrite, username, owner) ==
    IF needsWrite
    THEN IF meta.replica_of # NoReplicaOf THEN "replica"
         ELSE IF username # owner THEN "owner"
         ELSE "allow"
    ELSE "allow"

\* AccessDecision with the owner of a push not checked
AccessDecisionAnyWriter(meta, needsWrite, username, owner) ==
    IF needsWrite
    THEN IF meta.replica_of # NoReplicaOf THEN "replica"
         ELSE "allow"
    ELSE IF meta.private /\ username # owner THEN "private"
         ELSE "allow"

\* The access policy both front ends apply once the repository is found:
\* "replica", "owner", "private" name the refusal, "allow" lets the engine run.
AccessDecision(meta, needsWrite, username, owner) ==
    IF needsWrite
    THEN IF meta.replica_of # NoReplicaOf THEN "replica"
         ELSE IF username # owner THEN "owner"
         ELSE "allow"
    ELSE IF meta.private /\ username # owner THEN "private"
         ELSE "allow"

\* SSHServer.handleGitCommand with the job queued before the engine's exit is
\* looked at
SSHhandleGitCommandQueuesOnFailure(n, username, verb, path) ==
    LET id == parseRepoPath(path)
        owner == id[1]
        repo == id[2]
        st == repos[n]
        needsWrite == verb = ReceivePack
        Refuse(msg) ==
            /\ last' = Answer("ssh", n, owner, repo, username, verb, 1, msg, FALSE, FALSE)
            /\ UNCHANGED <<repos, queue>>
    IN  IF ~IsGitCommand(verb) THEN Refuse("only git commands allowed")
        ELSE IF owner = <<>> \/ repo = <<>> THEN Refuse("invalid repo path")
        ELSE IF ~RepoExists(st, owner, repo) THEN Refuse("repository not found")
        ELSE LET decision == AccessDecision(GetMetadata(st, owner, repo), needsWrite, username, owner)
             IN  IF decision = "replica"
                 THEN Refuse("permission denied: repository is a read-only replica")
                 ELSE IF decision = "owner"
                 THEN Refuse("permission denied: only owner can push")
                 ELSE IF decision = "private"
                 THEN Refuse("permission denied: private repository")
                 ELSE \E engineOK \in BOOLEAN, pushed \in (IF needsWrite THEN Contents ELSE {EmptyRefs}) :
                         IF ~engineOK
                         THEN /\ last' = Answer("ssh", n, owner, repo, username, verb, 1, "command error", TRUE, FALSE)
                              /\ UNCHANGED repos
                              /\ queue' = IF needsWrite
                                          THEN [queue EXCEPT ![n] = Enqueue(@, owner, repo)]
                                          ELSE queue
                         ELSE /\ last' = Answer("ssh", n, owner, repo, username, verb, 0, "", TRUE, FALSE)
                              /\ repos' = IF needsWrite
                                          THEN [repos EXCEPT ![n][<<owner, repo>>].refs = pushed]
                                          ELSE repos
                              /\ queue' = IF needsWrite
                                          THEN [queue EXCEPT ![n] = Enqueue(@, owner, repo)]
                                          ELSE queue

\* SSHServer.handleGitCommand with a dropped job reported to the client as a
\* failure
SSHhandleGitCommandSurfacesDrop(n, username, verb, path) ==
    LET id == parseRepoPath(path)
        owner == id[1]
        repo == id[2]
        st == repos[n]
        needsWrite == verb = ReceivePack
        Refuse(msg) ==
            /\ last' = Answer("ssh", n, owner, repo, username, verb, 1, msg, FALSE, FALSE)
            /\ UNCHANGED <<repos, queue>>
    IN  IF ~IsGitCommand(verb) THEN Refuse("only git commands allowed")
        ELSE IF owner = <<>> \/ repo = <<>> THEN Refuse("invalid repo path")
        ELSE IF ~RepoExists(st, owner, repo) THEN Refuse("repository not found")
        ELSE LET decision == AccessDecision(GetMetadata(st, owner, repo), needsWrite, username, owner)
             IN  IF decision = "replica"
                 THEN Refuse("permission denied: repository is a read-only replica")
                 ELSE IF decision = "owner"
                 THEN Refuse("permission denied: only owner can push")
                 ELSE IF decision = "private"
                 THEN Refuse("permission denied: private repository")
                 ELSE \E engineOK \in BOOLEAN, pushed \in (IF needsWrite THEN Contents ELSE {EmptyRefs}) :
                         IF ~engineOK
                         THEN /\ last' = Answer("ssh", n, owner, repo, username, verb, 1, "command error", TRUE, FALSE)
                              /\ UNCHANGED <<repos, queue>>
                         ELSE /\ last' = IF needsWrite /\ Len(queue[n]) >= QueueCap
                                          THEN Answer("ssh", n, owner, repo, username, verb, 1,
                                                      "replication queue full", TRUE, FALSE)
                                          ELSE Answer("ssh", n, owner, repo, username, verb, 0, "", TRUE, FALSE)
                              /\ repos' = IF needsWrite
                                          THEN [repos EXCEPT ![n][<<owner, repo>>].refs = pushed]
                                          ELSE repos
                              /\ queue' = IF needsWrite
                                          THEN [queue EXCEPT ![n] = Enqueue(@, owner, repo)]
                                          ELSE queue

\* SSHServer.handleGitCommand: the answer (exit status) and the effects, for a
\* connection authenticated as username; engineOK is whether cmd.Run returns
\* without error and pushed is the refs a successful push leaves
SSHhandleGitCommand(n, username, verb, path) ==
    LET id == parseRepoPath(path)
        owner == id[1]
        repo == id[2]
        st == repos[n]
        needsWrite == verb = ReceivePack
        Refuse(msg) ==
            /\ last' = Answer("ssh", n, owner, repo, username, verb, 1, msg, FALSE, FALSE)
            /\ UNCHANGED <<repos, queue>>
    IN  IF ~IsGitCommand(verb) THEN Refuse("only git commands allowed")
        ELSE IF owner = <<>> \/ repo = <<>> THEN Refuse("invalid repo path")
        ELSE IF ~RepoExists(st, owner, repo) THEN Refuse("repository not found")
        ELSE LET decision == AccessDecision(GetMetadata(st, owner, repo), needsWrite, username, owner)
             IN  IF decision = "replica"
                 THEN Refuse("permission denied: repository is a read-only replica")
                 ELSE IF decision = "owner"
                 THEN Refuse("permission denied: only owner can push")
                 ELSE IF decision = "private"
                 THEN Refuse("permission denied: private repository")
                 ELSE \E engineOK \in BOOLEAN, pushed \in (IF needsWrite THEN Contents ELSE {EmptyRefs}) :
                         IF ~engineOK
                         THEN /\ last' = Answer("ssh", n, owner, repo, username, verb, 1, "command error", TRUE, FALSE)
                              /\ UNCHANGED <<repos, queue>>
                         ELSE /\ last' = Answer("ssh", n, owner, repo, username, verb, 0, "", TRUE, FALSE)
                              /\ repos' = IF needsWrite
                                          THEN [repos EXCEPT ![n][<<owner, repo>>].refs = pushed]
                                          ELSE repos
                              /\ queue' = IF needsWrite
                                          THEN [queue EXCEPT ![n] = Enqueue(@, owner, repo)]
                                          ELSE queue

\* An SSH session: the handshake succeeds only for a registered key
\* (publicKeyCallback), then one exec request is handled.
SSHSession(n, key, verb, path) ==
    /\ Session
    /\ ValidateSSHKey(users[n], key).ok
    /\ SSHhandleGitCommand(n, ValidateSSHKey(users[n], key).user, verb, path)
    /\ UNCHANGED <<users, closed, worker, cli, sent>>

\* The part HTTPServer.handleInfoRefs and HTTPServer.handleGitCommand share
\* once the method (and the service) is accepted: op names the handler
HTTPServe(op, n, service, urlPath, creds) ==
    LET id == HTTPparseRepoPath(urlPath)
        owner == id[1]
        repo == id[2]
        st == repos[n]
        username == getAuthenticatedUser(users[n], creds)
        needsWrite == service = ReceivePack
        Refuse(status, msg, challenge) ==
            /\ last' = Answer(op, n, owner, repo, username, service, status, msg, FALSE, challenge)
            /\ UNCHANGED repos
    IN  IF owner = <<>> \/ repo = <<>> THEN Refuse(400, "invalid repo path", FALSE)
        ELSE IF ~RepoExists(st, owner, repo) THEN Refuse(404, "not found", FALSE)
        ELSE LET decision == AccessDecision(GetMetadata(st, owner, repo), needsWrite, username, owner)
             IN  IF decision = "replica"
                 THEN Refuse(403, "cannot push: repository is a read-only replica", FALSE)
                 ELSE IF decision \in {"owner", "private"}
                 THEN Refuse(401, "unauthorized", TRUE)
                 ELSE \E engineOK \in BOOLEAN,
                         pushed \in (IF needsWrite /\ op = "http-rpc" THEN Contents ELSE {EmptyRefs}) :
                         IF ~engineOK
                         THEN /\ last' = Answer(op, n, owner, repo, username, service, 500, "internal error", TRUE, FALSE)
                              /\ UNCHANGED repos
                         ELSE /\ last' = Answer(op, n, owner, repo, username, service, 200, "", TRUE, FALSE)
                              /\ repos' = IF needsWrite /\ op = "http-rpc"
                                          THEN [repos EXCEPT ![n][<<owner, repo>>].refs = pushed]
                                          ELSE repos

\* HTTPServer.handleInfoRefs: GET <urlPath>/info/refs?service=<service>
HTTPInfoRefs(n, method, service, urlPath, creds) ==
    /\ Session
    /\ IF method # "GET"
       THEN /\ last' = Answer("http-info", n, <<>>, <<>>, <<>>, service, 405, "method not allowed", FALSE, FALSE)
            /\ UNCHANGED repos
       ELSE IF service \notin {UploadPack, ReceivePack}
       THEN /\ last' = Answer("http-info", n, <<>>, <<>>, <<>>, service, 400, "invalid service", FALSE, FALSE)
            /\ UNCHANGED repos
       ELSE HTTPServe("http-info", n, service, urlPath, creds)
    /\ UNCHANGED <<users, queue, closed, worker, cli, sent>>

\* HTTPServer.handleGitCommand: POST <urlPath>/<service>
HTTPGitCommand(n, method, service, urlPath, creds) ==
    /\ Session
    /\ IF method # "POST"
       THEN /\ last' = Answer("http-rpc", n, <<>>, <<>>, <<>>, service, 405, "method not allowed", FALSE, FALSE)
            /\ UNCHANGED repos
       ELSE HTTPServe("http-rpc", n, service, urlPath, creds)
    /\ UNCHANGED <<users, queue, closed, worker, cli, sent>>


-----------------------------------------------------------------------------
(* Management API (internal/server). A handler is an operator from the     *)
(* stores and the request to [status, msg, repos, users]: the answer and   *)
(* the stores it leaves.                                                   *)

\* the length limit of isValidName
MaxNameLen == 100

NameChars == {"-", ".", "a", "b", "c", "e", "g", "i", "j", "l", "n", "o", "p", "r", "s", "t", "x"}

isValidName(name) ==
    IF name = <<>> \/ Len(name) > MaxNameLen THEN FALSE
    ELSE IF \E k \in 1..Len(name) : name[k] \notin NameChars THEN FALSE
    ELSE ~HasPrefix(name, <<".">>) /\ ~HasSuffix(name, <<".">>)

Result(status, msg, st, au) == [status |-> status, msg |-> msg, repos |-> st, users |-> au]

\* Server.handleCreateRepo answering the conflict after initialising the
\* repository again
handleCreateRepoReinit(st, au, owner, name) ==
    IF owner = <<>> \/ name = <<>> THEN Result(400, "owner and name required", st, au)
    ELSE IF ~isValidName(owner) \/ ~isValidName(name) THEN Result(400, "invalid owner or name", st, au)
    ELSE IF RepoExists(st, owner, name)
    THEN Result(409, "repository already exists",
                [st EXCEPT ![<<owner, name>>] = [meta |-> DefaultMeta, refs |-> EmptyRefs]], au)
    ELSE Result(200, "", StoreCreateRepo(st, owner, name), au)

\* Server.handleCreateRepo, for a POST with body {owner, name}
handleCreateRepo(st, au, owner, name) ==
    IF owner = <<>> \/ name = <<>> THEN Result(400, "owner and name required", st, au)
    ELSE IF ~isValidName(owner) \/ ~isValidName(name) THEN Result(400, "invalid owner or name", st, au)
    ELSE IF RepoExists(st, owner, name) THEN Result(409, "repository already exists", st, au)
    ELSE Result(200, "", StoreCreateRepo(st, owner, name), au)

\* Server.handleDeleteRepo, for a POST with body {owner, name}
handleDeleteRepo(st, au, owner, name) ==
    IF owner = <<>> \/ name = <<>> THEN Result(400, "owner and name required", st, au)
    ELSE IF ~RepoExists(st, owner, name) THEN Result(404, "repository not found", st, au)
    ELSE Result(200, "", StoreDeleteRepo(st, owner, name), au)

\* Server.handleMetadata, for a POST whose body decodes to the document meta
handleMetadataPost(st, au, owner, name, meta) ==
    IF owner = <<>> \/ name = <<>> THEN Result(400, "owner and name required", st, au)
    ELSE IF ~RepoExists(st, owner, name) THEN Result(404, "repository not found", st, au)
    ELSE Result(200, "", SetMetadata(st, owner, name, meta), au)

\* Server.handleRegisterReplication, for a POST with body
\* {owner, repo, replica_url, token, origin_instance_id}
handleRegisterReplication(st, au, req) ==
    IF req.owner = <<>> \/ req.repo = <<>> \/ req.token = "" \/ req.origin_instance_id = <<>>
       \/ req.replica_url = ""
    THEN Result(400, "owner, repo, token, origin_instance_id, and replica_url required", st, au)
    ELSE IF ~isValidName(req.owner) \/ ~isValidName(req.repo)
    THEN Result(400, "invalid owner or repo name", st, au)
    ELSE IF ~RepoExists(st, req.owner, req.repo)
    THEN Result(404, "repository not found", st, au)
    ELSE IF GetMetadata(st, req.owner, req.repo).replica_of # NoReplicaOf
    THEN Result(403, "cannot add replica: this is a replica itself", st, au)
    ELSE LET replicationUser == ReplicationUser(req.owner, req.repo, req.origin_instance_id)
         IN  IF replicationUser \in DOMAIN au
             THEN Result(200, "", st, au)   \* "already exists" is ignored
             ELSE Result(200, "", st, AuthCreateUserWithToken(au, replicationUser, req.token))

\* an intermediate verdict of a handler: status 0 lets the request go on
Verdict(status, msg) == [status |-> status, msg |-> msg]

Pass == Verdict(0, "")

\* Server.handleReplicate up to the comparison of the token's user with the
\* request body: the Authorization header auth is <<>> when missing, else
\* <<scheme, token>>
handleReplicateAuthIgnoresBody(au, auth, req) ==
    IF auth = <<>> THEN Verdict(401, "missing authorization")
    ELSE IF auth[1] # "Bearer" THEN Verdict(401, "invalid authorization header")
    ELSE IF ~ValidateAPIToken(au, auth[2]).ok THEN Verdict(401, "invalid token")
    ELSE IF req.owner = <<>> \/ req.repo = <<>> \/ req.instance_id = <<>> \/ req.invitation_key = ""
    THEN Verdict(400, "owner, repo, instance_id, and invitation_key required")
    ELSE IF ~isValidName(req.owner) \/ ~isValidName(req.repo)
    THEN Verdict(400, "invalid owner or repo name")
    ELSE IF req.bundle = "" THEN Verdict(400, "missing bundle data")
    ELSE IF ~HasPrefix(ValidateAPIToken(au, auth[2]).user, ReplPrefix)
    THEN Verdict(403, "unauthorized: not a replication user")
    ELSE Pass

handleReplicateAuth(au, auth, req) ==
    IF auth = <<>> THEN Verdict(401, "missing authorization")
    ELSE IF auth[1] # "Bearer" THEN Verdict(401, "invalid authorization header")
    ELSE IF ~ValidateAPIToken(au, auth[2]).ok THEN Verdict(401, "invalid token")
    ELSE IF req.owner = <<>> \/ req.repo = <<>> \/ req.instance_id = <<>> \/ req.invitation_key = ""
    THEN Verdict(400, "owner, repo, instance_id, and invitation_key required")
    ELSE IF ~isValidName(req.owner) \/ ~isValidName(req.repo)
    THEN Verdict(400, "invalid owner or repo name")
    ELSE IF req.bundle = "" THEN Verdict(400, "missing bundle data")
    ELSE IF ~HasPrefix(ValidateAPIToken(au, auth[2]).user, ReplPrefix)
    THEN Verdict(403, "unauthorized: not a replication user")
    ELSE IF ValidateAPIToken(au, auth[2]).user # ReplicationUser(req.owner, req.repo, req.instance_id)
    THEN Verdict(403, "unauthorized: token mismatch")
    ELSE Pass

\* Server.handleReplicate: what a repository that exists already must satisfy
handleReplicateExistingKeyOnly(st, req) ==
    IF RepoExists(st, req.owner, req.repo)
       /\ GetMetadata(st, req.owner, req.repo).replica_of # NoReplicaOf
       /\ GetMetadata(st, req.owner, req.repo).replica_of[1].invitation_key # req.invitation_key
    THEN Verdict(403, "invalid invitation key")
    ELSE Pass

\* handleReplicateExisting without the comparison of the invitation keys
handleReplicateExistingOriginOnly(st, req) ==
    IF ~RepoExists(st, req.owner, req.repo) THEN Pass
    ELSE IF GetMetadata(st, req.owner, req.repo).replica_of = NoReplicaOf
    THEN Verdict(409, "cannot replicate: repo already exists as origin")
    ELSE Pass

handleReplicateExisting(st, req) ==
    IF ~RepoExists(st, req.owner, req.repo) THEN Pass
    ELSE IF GetMetadata(st, req.owner, req.repo).replica_of = NoReplicaOf
    THEN Verdict(409, "cannot replicate: repo already exists as origin")
    ELSE IF GetMetadata(st, req.owner, req.repo).replica_of[1].invitation_key # req.invitation_key
    THEN Verdict(403, "invalid invitation key")
    ELSE Pass

\* Server.handleReplicate from the creation of a missing repository on:
\* fetchOK is whether git fetch of the bundle succeeds
handleReplicateApplyKeepsSource(st, au, req, fetchOK) ==
    LET st1 == IF RepoExists(st, req.owner, req.repo) THEN st
               ELSE StoreCreateRepo(st, req.owner, req.repo)
        st2 == [st1 EXCEPT ![<<req.owner, req.repo>>].refs = req.bundle]
    IN  IF ~fetchOK THEN Result(500, "git fetch failed", st1, au)
        ELSE Result(200, "", SetMetadata(st2, req.owner, req.repo, req.metadata), au)

handleReplicateApply(st, au, req, fetchOK) ==
    LET st1 == IF RepoExists(st, req.owner, req.repo) THEN st
               ELSE StoreCreateRepo(st, req.owner, req.repo)
        st2 == [st1 EXCEPT ![<<req.owner, req.repo>>].refs = req.bundle]
        meta == [req.metadata EXCEPT
                    !.replica_of = ReplicaSource(req.instance_id, req.invitation_key)]
    IN  IF ~fetchOK THEN Result(500, "git fetch failed", st1, au)
        ELSE Result(200, "", SetMetadata(st2, req.owner, req.repo, meta), au)

\* Server.handleReplicate
handleReplicate(st, au, auth, req, fetchOK) ==
    LET a == handleReplicateAuth(au, auth, req)
        e == handleReplicateExisting(st, req)
    IN  IF a.status # 0 THEN Result(a.status, a.msg, st, au)
        ELSE IF e.status # 0 THEN Result(e.status, e.msg, st, au)
        ELSE handleReplicateApply(st, au, req, fetchOK)


\* where an instance listens, and a peer outside the model
URLOf(n) == IF n = "A" THEN "http://a" ELSE "http://b"
ExternalURL == "http://x"

Hosted(url) == {m \in Instances : URLOf(m) = url}

\* POST /api/repos/create
APICreateRepo(n, owner, name) ==
    /\ Step
    /\ LET r == handleCreateRepo(repos[n], users[n], owner, name)
       IN  /\ repos' = [repos EXCEPT ![n] = r.repos]
           /\ last' = Answer("create", n, owner, name, <<>>, "", r.status, r.msg, FALSE, FALSE)
    /\ UNCHANGED <<users, queue, closed, worker, cli, sent>>

\* POST /api/repos/delete
APIDeleteRepo(n, owner, name) ==
    /\ Step
    /\ LET r == handleDeleteRepo(repos[n], users[n], owner, name)
       IN  /\ repos' = [repos EXCEPT ![n] = r.repos]
           /\ last' = Answer("delete", n, owner, name, <<>>, "", r.status, r.msg, FALSE, FALSE)
    /\ UNCHANGED <<users, queue, closed, worker, cli, sent>>

\* POST /api/repos/metadata?owner=..&name=..
APIPostMetadata(n, owner, name, meta) ==
    /\ Step
    /\ LET r == handleMetadataPost(repos[n], users[n], owner, name, meta)
       IN  /\ repos' = [repos EXCEPT ![n] = r.repos]
           /\ last' = Answer("metadata", n, owner, name, <<>>, "", r.status, r.msg, FALSE, FALSE)
    /\ UNCHANGED <<users, queue, closed, worker, cli, sent>>

\* POST /api/repos/register-replication, sent by anybody
APIRegisterReplication(n, req) ==
    /\ Step
    /\ LET r == handleRegisterReplication(repos[n], users[n], req)
       IN  /\ users' = [users EXCEPT ![n] = r.users]
           /\ last' = Answer("register", n, req.owner, req.repo, <<>>, "", r.status, r.msg, FALSE, FALSE)
    /\ UNCHANGED <<repos, queue, closed, worker, cli, sent>>

\* POST /api/repos/replicate, sent by anybody
APIReplicate(n, auth, req) ==
    /\ Step
    /\ \E fetchOK \in BOOLEAN :
          LET r == handleReplicate(repos[n], users[n], auth, req, fetchOK)
          IN  /\ repos' = [repos EXCEPT ![n] = r.repos]
              /\ last' = Answer("replicate", n, req.owner, req.repo, <<>>, "", r.status, r.msg, FALSE, FALSE)
    /\ UNCHANGED <<users, queue, closed, worker, cli, sent>>

-----------------------------------------------------------------------------
(* The admin tool's add-replica and remove-replica (cmd/openhub), which    *)
(* read and write the store of the instance directly.                      *)

Replica(instanceID, url, token, invitationKey) ==
    [instance_id |-> instanceID, url |-> url, token |-> token,
     invitation_key |-> invitationKey, enabled |-> TRUE, last_synced |-> 0]

IdleCli(outcome) ==
    [pc |-> "idle", owner |-> <<>>, name |-> <<>>, url |-> "", meta |-> DefaultMeta,
     token |-> "", key |-> "", posted |-> FALSE, outcome |-> outcome]

\* adminAddReplica up to the registration request, without its test of
\* replica_of
AddReplicaLoadUnchecked(n, owner, name, url, token, key) ==
    /\ Step
    /\ cli[n].pc = "idle"
    /\ RepoExists(repos[n], owner, name) => Len(GetMetadata(repos[n], owner, name).replicas) < MaxReplicas
    /\ cli' = [cli EXCEPT ![n] =
                  IF ~RepoExists(repos[n], owner, name)
                  THEN IdleCli("error: repo does not exist")
                  ELSE [pc |-> "register", owner |-> owner, name |-> name, url |-> url,
                        meta |-> GetMetadata(repos[n], owner, name),
                        token |-> token, key |-> key, posted |-> FALSE, outcome |-> ""]]
    /\ UNCHANGED <<repos, users, queue, closed, worker, sent, last>>

\* adminAddReplica up to the registration request: load the instance id and the
\* metadata, refuse a replica, draw the token and the invitation key
AddReplicaLoad(n, owner, name, url, token, key) ==
    /\ Step
    /\ cli[n].pc = "idle"
    /\ RepoExists(repos[n], owner, name) => Len(GetMetadata(repos[n], owner, name).replicas) < MaxReplicas
    /\ cli' = [cli EXCEPT ![n] =
                  IF ~RepoExists(repos[n], owner, name)
                  THEN IdleCli("error: repo does not exist")
                  ELSE IF GetMetadata(repos[n], owner, name).replica_of # NoReplicaOf
                  THEN IdleCli("error: cannot add replica to a replica repository")
                  ELSE [pc |-> "register", owner |-> owner, name |-> name, url |-> url,
                        meta |-> GetMetadata(repos[n], owner, name),
                        token |-> token, key |-> key, posted |-> FALSE, outcome |-> ""]]
    /\ UNCHANGED <<repos, users, queue, closed, worker, sent, last>>

\* adminAddReplica going on to store the record whatever the peer answered
AddReplicaRegisterIgnoresAnswer(n) ==
    /\ Step
    /\ cli[n].pc = "register"
    /\ LET c == cli[n]
           req == [owner |-> c.owner, repo |-> c.name, replica_url |-> c.url,
                   token |-> c.token, origin_instance_id |-> InstanceID(n)]
           Answered(ok) ==
               cli' = [cli EXCEPT ![n] =
                          [c EXCEPT !.pc = "store", !.posted = TRUE]]
       IN  IF Hosted(c.url) = {}
           THEN /\ \E ok \in BOOLEAN : Answered(ok)
                /\ UNCHANGED <<users, last>>
           ELSE LET m == CHOOSE m \in Hosted(c.url) : TRUE
                    r == handleRegisterReplication(repos[m], users[m], req)
                IN  /\ Answered(r.status = 200)
                    /\ users' = [users EXCEPT ![m] = r.users]
                    /\ last' = Answer("register", m, req.owner, req.repo, <<>>, "", r.status, r.msg, FALSE, FALSE)
    /\ UNCHANGED <<repos, queue, closed, worker, sent>>

\* adminAddReplica: POST register-replication to the peer and read its answer
AddReplicaRegister(n) ==
    /\ Step
    /\ cli[n].pc = "register"
    /\ LET c == cli[n]
           req == [owner |-> c.owner, repo |-> c.name, replica_url |-> c.url,
                   token |-> c.token, origin_instance_id |-> InstanceID(n)]
           Answered(ok) ==
               cli' = [cli EXCEPT ![n] =
                          IF ok THEN [c EXCEPT !.pc = "store", !.posted = TRUE]
                          ELSE [IdleCli("replica registration failed") EXCEPT !.posted = TRUE]]
       IN  IF Hosted(c.url) = {}
           THEN /\ \E ok \in BOOLEAN : Answered(ok)
                /\ UNCHANGED <<users, last>>
           ELSE LET m == CHOOSE m \in Hosted(c.url) : TRUE
                    r == handleRegisterReplication(repos[m], users[m], req)
                IN  /\ Answered(r.status = 200)
                    /\ users' = [users EXCEPT ![m] = r.users]
                    /\ last' = Answer("register", m, req.owner, req.repo, <<>>, "", r.status, r.msg, FALSE, FALSE)
    /\ UNCHANGED <<repos, queue, closed, worker, sent>>

\* adminAddReplica: append the Replica record to the metadata loaded and write it
AddReplicaStore(n) ==
    /\ Step
    /\ cli[n].pc = "store"
    /\ LET c == cli[n]
           meta == [c.meta EXCEPT !.replicas =
                       Append(@, Replica(InstanceID(n), c.url, c.token, c.key))]
       IN  IF RepoExists(repos[n], c.owner, c.name)
           THEN /\ repos' = [repos EXCEPT ![n] = SetMetadata(@, c.owner, c.name, meta)]
                /\ cli' = [cli EXCEPT ![n] = [IdleCli("ok") EXCEPT !.posted = TRUE]]
           ELSE /\ cli' = [cli EXCEPT ![n] = [IdleCli("error: repo does not exist") EXCEPT !.posted = TRUE]]
                /\ UNCHANGED repos
    /\ UNCHANGED <<users, queue, closed, worker, sent, last>>

\* the replicas list without the records of one instance id
WithoutInstance(replicas, instanceID) ==
    SelectSeq(replicas, LAMBDA r : r.instance_id # instanceID)

\* adminRemoveReplica
RemoveReplica(n, owner, name, instanceID) ==
    /\ Step
    /\ RepoExists(repos[n], owner, name)
    /\ LET meta == GetMetadata(repos[n], owner, name)
       IN  /\ \E k \in 1..Len(meta.replicas) : meta.replicas[k].instance_id = instanceID
           /\ repos' = [repos EXCEPT ![n] = SetMetadata(@, owner, name,
                            [meta EXCEPT !.replicas = WithoutInstance(@, instanceID)])]
    /\ UNCHANGED <<users, queue, closed, worker, cli, sent, last>>


-----------------------------------------------------------------------------
(* Replication pipeline (replication.Manager)                              *)

Workers == 1..NumWorkers

IdleWorker ==
    [pc |-> "idle", owner |-> <<>>, repo |-> <<>>, meta |-> DefaultMeta, bundle |-> "", idx |-> 0]

NoSent ==
    [from |-> "A", url |-> "", token |-> "", owner |-> <<>>, repo |-> <<>>, instance_id |-> <<>>,
     invitation_key |-> "", bundle |-> "", metadata |-> DefaultMeta, status |-> 0]

\* the order in which Storage.ListRepos lists two repositories: owner
\* directories by name, then the <name>.git entries of one owner by name
ListedBefore(x, y) ==
    \/ StrLess(x[1], y[1])
    \/ x[1] = y[1] /\ StrLess(x[2] \o DotGit, y[2] \o DotGit)

\* Storage.ListRepos
RECURSIVE ListRepos(_)
ListRepos(ids) ==
    IF ids = {} THEN <<>>
    ELSE LET first == CHOOSE x \in ids : \A y \in ids \ {x} : ListedBefore(x, y)
         IN  <<first>> \o ListRepos(ids \ {first})

RECURSIVE QueueAll(_, _)
QueueAll(q, list) ==
    IF list = <<>> THEN q
    ELSE QueueAll(Enqueue(q, Head(list)[1], Head(list)[2]), Tail(list))

\* Manager.SyncAll, run by the ticker of StartPeriodicSync
PeriodicSync(n) ==
    /\ Step
    /\ queue' = [queue EXCEPT ![n] = QueueAll(@, ListRepos(DOMAIN repos[n]))]
    /\ UNCHANGED <<repos, users, closed, worker, cli, sent, last>>

\* Manager.SyncAll at a tick of the ticker of StartPeriodicSync, which runs
\* for as long as the process does. Once Stop has closed the channel the
\* send in Manager.Queue panics (a send on a closed channel does, within a
\* select with a default case too) and the process ends.
SyncAll(n) ==
    /\ IF closed[n] /\ DOMAIN repos[n] # {}
       THEN /\ last' = LET first == Head(ListRepos(DOMAIN repos[n]))
                       IN  Answer("panic", n, first[1], first[2], <<>>, "", 2,
                                  "send on closed channel", FALSE, FALSE)
            /\ UNCHANGED queue
       ELSE /\ queue' = [queue EXCEPT ![n] = QueueAll(@, ListRepos(DOMAIN repos[n]))]
            /\ UNCHANGED last
    /\ UNCHANGED <<repos, users, closed, worker, cli, sent, clock, sessions, instance, handler>>

\* Manager.worker reading a job that stays in the channel
WorkerTakeLeavesJob(n, w) ==
    /\ worker[n][w].pc = "idle"
    /\ queue[n] # <<>>
    /\ LET owner == Head(queue[n])[1]
           repo == Head(queue[n])[2]
       IN  worker' = [worker EXCEPT ![n][w] =
              IF ~RepoExists(repos[n], owner, repo) THEN IdleWorker
              ELSE IF Len(GetMetadata(repos[n], owner, repo).replicas) = 0 THEN IdleWorker
              ELSE [pc |-> "push", owner |-> owner, repo |-> repo,
                    meta |-> GetMetadata(repos[n], owner, repo),
                    bundle |-> repos[n][<<owner, repo>>].refs, idx |-> 1]]
    /\ UNCHANGED <<repos, users, queue, closed, cli, sent, last, clock, sessions, instance, handler>>

\* Manager.worker takes a job; Manager.replicate loads the metadata, returns
\* when the repository is gone or has no replicas, and creates the bundle
WorkerTake(n, w) ==
    /\ worker[n][w].pc = "idle"
    /\ queue[n] # <<>>
    /\ queue' = [queue EXCEPT ![n] = Tail(@)]
    /\ LET owner == Head(queue[n])[1]
           repo == Head(queue[n])[2]
       IN  worker' = [worker EXCEPT ![n][w] =
              IF ~RepoExists(repos[n], owner, repo) THEN IdleWorker
              ELSE IF Len(GetMetadata(repos[n], owner, repo).replicas) = 0 THEN IdleWorker
              ELSE [pc |-> "push", owner |-> owner, repo |-> repo,
                    meta |-> GetMetadata(repos[n], owner, repo),
                    bundle |-> repos[n][<<owner, repo>>].refs, idx |-> 1]]
    /\ UNCHANGED <<repos, users, closed, cli, sent, last, clock, sessions, instance, handler>>

\* the body Manager.pushToReplica posts: the metadata read again, without its
\* replicas
ReplicatePayload(n, owner, repo, replica, bundle) ==
    [owner |-> owner, repo |-> repo, instance_id |-> InstanceID(n),
     invitation_key |-> replica.invitation_key, bundle |-> bundle,
     metadata |-> [GetMetadata(repos[n], owner, repo) EXCEPT !.replicas = <<>>]]

\* the loop of Manager.replicate returning at the first failed push
WorkerPushAbortsOnFailure(n, w) ==
    /\ worker[n][w].pc = "push"
    /\ worker[n][w].idx <= Len(worker[n][w].meta.replicas)
    /\ LET s == worker[n][w]
           replica == s.meta.replicas[s.idx]
           Advance(synced) ==
               worker' = [worker EXCEPT ![n][w] =
                  IF replica.enabled /\ ~synced THEN IdleWorker
                  ELSE [s EXCEPT !.idx = @ + 1,
                                 !.meta.replicas[s.idx].last_synced = IF synced THEN clock ELSE @]]
       IN  IF ~replica.enabled \/ ~RepoExists(repos[n], s.owner, s.repo)
           THEN Advance(FALSE) /\ UNCHANGED <<repos, sent, last>>
           ELSE LET req == ReplicatePayload(n, s.owner, s.repo, replica, s.bundle)
                    Sent(status) ==
                        sent' = [from |-> n, url |-> replica.url, token |-> replica.token,
                                 owner |-> req.owner, repo |-> req.repo,
                                 instance_id |-> req.instance_id,
                                 invitation_key |-> req.invitation_key, bundle |-> req.bundle,
                                 metadata |-> req.metadata, status |-> status]
                IN  IF Hosted(replica.url) = {}
                    THEN /\ \E status \in {200, 500} : Sent(status) /\ Advance(status = 200)
                         /\ UNCHANGED <<repos, last>>
                    ELSE LET m == CHOOSE m \in Hosted(replica.url) : TRUE
                         IN  \E fetchOK \in BOOLEAN :
                                LET r == handleReplicate(repos[m], users[m],
                                                         <<"Bearer", replica.token>>, req, fetchOK)
                                IN  /\ Sent(r.status) /\ Advance(r.status = 200)
                                    /\ repos' = [repos EXCEPT ![m] = r.repos]
                                    /\ last' = Answer("replicate", m, req.owner, req.repo, <<>>, "",
                                                      r.status, r.msg, FALSE, FALSE)
    /\ UNCHANGED <<users, queue, closed, cli, clock, sessions, instance, handler>>

\* one turn of the loop of Manager.replicate: skip a disabled replica, else
\* pushToReplica and, on 200, set last_synced in the metadata loaded
WorkerPush(n, w) ==
    /\ worker[n][w].pc = "push"
    /\ worker[n][w].idx <= Len(worker[n][w].meta.replicas)
    /\ LET s == worker[n][w]
           replica == s.meta.replicas[s.idx]
           Advance(synced) ==
               worker' = [worker EXCEPT ![n][w] =
                  [s EXCEPT !.idx = @ + 1,
                            !.meta.replicas[s.idx].last_synced = IF synced THEN clock ELSE @]]
       IN  IF ~replica.enabled \/ ~RepoExists(repos[n], s.owner, s.repo)
           THEN Advance(FALSE) /\ UNCHANGED <<repos, sent, last>>
           ELSE LET req == ReplicatePayload(n, s.owner, s.repo, replica, s.bundle)
                    Sent(status) ==
                        sent' = [from |-> n, url |-> replica.url, token |-> replica.token,
                                 owner |-> req.owner, repo |-> req.repo,
                                 instance_id |-> req.instance_id,
                                 invitation_key |-> req.invitation_key, bundle |-> req.bundle,
                                 metadata |-> req.metadata, status |-> status]
                IN  IF Hosted(replica.url) = {}
                    THEN /\ \E status \in {200, 500} : Sent(status) /\ Advance(status = 200)
                         /\ UNCHANGED <<repos, last>>
                    ELSE LET m == CHOOSE m \in Hosted(replica.url) : TRUE
                         IN  \E fetchOK \in BOOLEAN :
                                LET r == handleReplicate(repos[m], users[m],
                                                         <<"Bearer", replica.token>>, req, fetchOK)
                                IN  /\ Sent(r.status) /\ Advance(r.status = 200)
                                    /\ repos' = [repos EXCEPT ![m] = r.repos]
                                    /\ last' = Answer("replicate", m, req.owner, req.repo, <<>>, "",
                                                      r.status, r.msg, FALSE, FALSE)
    /\ UNCHANGED <<users, queue, closed, cli, clock, sessions, instance, handler>>

\* the end of Manager.replicate reading the metadata again and writing it
\* with the last_synced values of the job
WorkerStoreRereads(n, w) ==
    /\ worker[n][w].pc = "push"
    /\ worker[n][w].idx > Len(worker[n][w].meta.replicas)
    /\ LET s == worker[n][w]
       IN  repos' = IF RepoExists(repos[n], s.owner, s.repo)
                    THEN [repos EXCEPT ![n] = SetMetadata(@, s.owner, s.repo,
                             [GetMetadata(repos[n], s.owner, s.repo) EXCEPT !.replicas =
                                 [k \in 1..Len(@) |->
                                     IF k <= Len(s.meta.replicas)
                                     THEN [@[k] EXCEPT !.last_synced = s.meta.replicas[k].last_synced]
                                     ELSE @[k]]])]
                    ELSE repos
    /\ worker' = [worker EXCEPT ![n][w] = IdleWorker]
    /\ UNCHANGED <<users, queue, closed, cli, sent, last, clock, sessions, instance, handler>>

\* the end of Manager.replicate: write the metadata loaded at its start
WorkerStore(n, w) ==
    /\ worker[n][w].pc = "push"
    /\ worker[n][w].idx > Len(worker[n][w].meta.replicas)
    /\ LET s == worker[n][w]
       IN  repos' = IF RepoExists(repos[n], s.owner, s.repo)
                    THEN [repos EXCEPT ![n] = SetMetadata(@, s.owner, s.repo, s.meta)]
                    ELSE repos
    /\ worker' = [worker EXCEPT ![n][w] = IdleWorker]
    /\ UNCHANGED <<users, queue, closed, cli, sent, last, clock, sessions, instance, handler>>

\* a worker whose range over the channel has ended
ExitedWorker == [IdleWorker EXCEPT !.pc = "exited"]

\* Manager.worker leaving its loop at once when the channel is closed, jobs
\* pending or not
WorkerExitAbandons(n, w) ==
    /\ worker[n][w].pc = "idle"
    /\ closed[n]
    /\ worker' = [worker EXCEPT ![n][w] = ExitedWorker]
    /\ UNCHANGED <<repos, users, queue, closed, cli, sent, last, clock, sessions, instance, handler>>

\* Manager.worker: the range over the channel ends when the channel is
\* closed and drained; the deferred wg.Done follows
WorkerExit(n, w) ==
    /\ worker[n][w].pc = "idle"
    /\ closed[n] /\ queue[n] = <<>>
    /\ worker' = [worker EXCEPT ![n][w] = ExitedWorker]
    /\ UNCHANGED <<repos, users, queue, closed, cli, sent, last, clock, sessions, instance, handler>>

\* Manager.Stop: close(m.queue)
Stop(n) ==
    /\ ~closed[n]
    /\ closed' = [closed EXCEPT ![n] = TRUE]
    /\ UNCHANGED <<repos, users, queue, worker, cli, sent, last, clock, sessions, instance, handler>>

\* Manager.Stop: wg.Wait() returns when every worker has exited, and Stop
\* returns to its caller
StopReturn(n) ==
    /\ closed[n]
    /\ \A w \in Workers : worker[n][w].pc = "exited"
    /\ last.op # "stop"
    /\ last' = Answer("stop", n, <<>>, <<>>, <<>>, "", 0, "", FALSE, FALSE)
    /\ UNCHANGED <<repos, users, queue, closed, worker, cli, sent, clock, sessions, instance, handler>>

-----------------------------------------------------------------------------
(* Instance identity (internal/instance)                                   *)

\* the processes that call LoadOrCreate on a storage root: runServer and
\* adminAddReplica
Callers == {"server", "add-replica"}

\* what a call of LoadOrCreate returned: nothing yet, an error, or an id
NoReturn == <<>>
LoadError == <<"error">>

\* instance.json: missing, or opened for writing and still empty; else the
\* id it holds
NoFile == <<"absent">>
EmptyFile == <<"empty">>

\* a caller outside LoadOrCreate, with what its last call returned
IdleCaller == [pc |-> "idle", ret |-> NoReturn]

\* no instance.json yet, no call made; uuids counts the ids uuid.New() has
\* handed out, each being new
NoInstance == [file |-> NoFile, uuids |-> 0, loads |-> 0, proc |-> [c \in Callers |-> IdleCaller]]

\* the id of the k-th call of uuid.New()
UUID(k) == <<"u", k>>

\* LoadOrCreate up to os.ReadFile and json.Unmarshal: an existing file with
\* an id is returned, a file that os.WriteFile has truncated and not yet
\* filled fails to unmarshal, a missing file sends the caller on to create
LoadRead(c) ==
    /\ instance.proc[c].pc = "idle"
    /\ instance.loads < MaxLoads
    /\ instance' = [instance EXCEPT
          !.loads = @ + 1,
          !.proc[c] = IF instance.file = NoFile THEN [pc |-> "create", ret |-> NoReturn]
                      ELSE IF instance.file = EmptyFile THEN [pc |-> "idle", ret |-> LoadError]
                      ELSE [pc |-> "idle", ret |-> instance.file]]
    /\ UNCHANGED <<repos, users, queue, closed, worker, cli, sent, last, clock, sessions, handler>>

\* LoadOrCreate: uuid.New(), and os.WriteFile opening instance.json, which
\* creates or truncates it
LoadCreate(c) ==
    /\ instance.proc[c].pc = "create"
    /\ instance' = [instance EXCEPT
          !.uuids = @ + 1,
          !.file = EmptyFile,
          !.proc[c] = [pc |-> "write", ret |-> UUID(instance.uuids + 1)]]
    /\ UNCHANGED <<repos, users, queue, closed, worker, cli, sent, last, clock, sessions, handler>>

\* LoadOrCreate: os.WriteFile writes the document and the call returns the
\* id it generated
LoadWrite(c) ==
    /\ instance.proc[c].pc = "write"
    /\ instance' = [instance EXCEPT
          !.file = instance.proc[c].ret,
          !.proc[c].pc = "idle"]
    /\ UNCHANGED <<repos, users, queue, closed, worker, cli, sent, last, clock, sessions, handler>>

-----------------------------------------------------------------------------
(* Requests served concurrently. net/http serves every request in its own  *)
(* goroutine and the handlers take no lock, so the handlers of instance A  *)
(* that create a repository are taken apart here into the steps between    *)
(* which another request can run.                                          *)

\* the goroutines serving management requests on instance A
Handlers == {"g1", "g2"}

\* a goroutine that has no request yet: op is the endpoint, req the decoded
\* body (for /create: owner and name), created whether the request has
\* created the repository, status the answer once given
IdleHandler ==
    [pc |-> "idle", op |-> "", created |-> FALSE, status |-> 0,
     req |-> [owner |-> <<>>, repo |-> <<>>, instance_id |-> <<>>, invitation_key |-> "",
              bundle |-> "", metadata |-> DefaultMeta]]

\* filepath.Join(os.TempDir(), fmt.Sprintf("bundle-%s-%s.bundle", owner, repo)),
\* as the file name within the temp directory
bundlePath(owner, repo) ==
    <<"b", "u", "n", "d", "l", "e", "-">> \o owner \o <<"-">> \o repo
        \o <<".", "b", "u", "n", "d", "l", "e">>

\* Server.handleCreateRepo up to its call of Storage.CreateRepo
CreateCheck(h, owner, name) ==
    /\ handler.thr[h].pc = "idle"
    /\ LET r == handleCreateRepo(repos["A"], users["A"], owner, name)
           t == [IdleHandler EXCEPT !.op = "create", !.req.owner = owner, !.req.repo = name]
       IN  IF r.status # 200
           THEN /\ handler' = [handler EXCEPT !.thr[h] = [t EXCEPT !.pc = "done", !.status = r.status]]
                /\ last' = Answer("create", "A", owner, name, <<>>, "", r.status, r.msg, FALSE, FALSE)
           ELSE /\ handler' = [handler EXCEPT !.thr[h] = [t EXCEPT !.pc = "create"]]
                /\ UNCHANGED last
    /\ UNCHANGED <<repos, users, queue, closed, worker, cli, sent, clock, sessions, instance>>

\* Server.handleReplicate up to its call of Storage.CreateRepo, or up to the
\* bundle file when the repository exists
ReplicateCheck(h, auth, req) ==
    /\ handler.thr[h].pc = "idle"
    /\ LET a == handleReplicateAuth(users["A"], auth, req)
           e == handleReplicateExisting(repos["A"], req)
           v == IF a.status # 0 THEN a ELSE e
           t == [IdleHandler EXCEPT !.op = "replicate", !.req = req]
       IN  IF v.status # 0
           THEN /\ handler' = [handler EXCEPT !.thr[h] = [t EXCEPT !.pc = "done", !.status = v.status]]
                /\ last' = Answer("replicate", "A", req.owner, req.repo, <<>>, "", v.status, v.msg, FALSE, FALSE)
           ELSE /\ handler' = [handler EXCEPT !.thr[h] =
                       [t EXCEPT !.pc = IF RepoExists(repos["A"], req.owner, req.repo)
                                        THEN "write" ELSE "create"]]
                /\ UNCHANGED last
    /\ UNCHANGED <<repos, users, queue, closed, worker, cli, sent, clock, sessions, instance>>

\* Storage.CreateRepo: its own test of RepoExists
CreateRepoCheck(h) ==
    /\ handler.thr[h].pc = "create"
    /\ LET t == handler.thr[h]
       IN  IF RepoExists(repos["A"], t.req.owner, t.req.repo)
           THEN /\ handler' = [handler EXCEPT !.thr[h] = [t EXCEPT !.pc = "done", !.status = 500]]
                /\ last' = Answer(t.op, "A", t.req.owner, t.req.repo, <<>>, "", 500,
                                  "create failed: repo already exists", FALSE, FALSE)
           ELSE /\ handler' = [handler EXCEPT !.thr[h] = [t EXCEPT !.pc = "init"]]
                /\ UNCHANGED last
    /\ UNCHANGED <<repos, users, queue, closed, worker, cli, sent, clock, sessions, instance>>

\* Storage.CreateRepo: git init --bare, which leaves the refs of a
\* repository already there as they are, and SetMetadata with the defaults;
\* /create then answers, /replicate goes on to the bundle
CreateRepoInit(h) ==
    /\ handler.thr[h].pc = "init"
    /\ LET t == handler.thr[h]
       IN  /\ repos' = [repos EXCEPT !["A"] =
                          IF RepoExists(@, t.req.owner, t.req.repo)
                          THEN SetMetadata(@, t.req.owner, t.req.repo, DefaultMeta)
                          ELSE StoreCreateRepo(@, t.req.owner, t.req.repo)]
           /\ IF t.op = "create"
              THEN /\ handler' = [handler EXCEPT !.thr[h] = [t EXCEPT !.pc = "done", !.status = 200, !.created = TRUE]]
                   /\ last' = Answer("create", "A", t.req.owner, t.req.repo, <<>>, "", 200, "", FALSE, FALSE)
              ELSE /\ handler' = [handler EXCEPT !.thr[h] = [t EXCEPT !.pc = "write", !.created = TRUE]]
                   /\ UNCHANGED last
    /\ UNCHANGED <<users, queue, closed, worker, cli, sent, clock, sessions, instance>>

\* Server.handleReplicate: os.WriteFile(bundlePath, bundleData), which
\* replaces what a file of that name holds
ReplicateWrite(h) ==
    /\ handler.thr[h].pc = "write"
    /\ LET t == handler.thr[h]
           path == bundlePath(t.req.owner, t.req.repo)
       IN  handler' = [handler EXCEPT
              !.tmp = (path :> t.req.bundle) @@ [p \in DOMAIN @ \ {path} |-> @[p]],
              !.thr[h] = [t EXCEPT !.pc = "fetch"]]
    /\ UNCHANGED <<repos, users, queue, closed, worker, cli, sent, last, clock, sessions, instance>>

\* Server.handleReplicate: git fetch from the file named bundlePath into the
\* repository, replica_of and SetMetadata, the answer, and the deferred
\* os.Remove(bundlePath); fetchOK is whether git can read what the file holds
ReplicateApply(h, fetchOK) ==
    /\ handler.thr[h].pc = "fetch"
    /\ LET t == handler.thr[h]
           path == bundlePath(t.req.owner, t.req.repo)
           ok == fetchOK /\ path \in DOMAIN handler.tmp /\ RepoExists(repos["A"], t.req.owner, t.req.repo)
           meta == [t.req.metadata EXCEPT
                       !.replica_of = ReplicaSource(t.req.instance_id, t.req.invitation_key)]
       IN  /\ handler' = [handler EXCEPT
                 !.tmp = [p \in DOMAIN @ \ {path} |-> @[p]],
                 !.thr[h] = [t EXCEPT !.pc = "done", !.status = IF ok THEN 200 ELSE 500]]
           /\ repos' = IF ok
                       THEN [repos EXCEPT !["A"] =
                               SetMetadata([@ EXCEPT ![<<t.req.owner, t.req.repo>>].refs = handler.tmp[path]],
                                           t.req.owner, t.req.repo, meta)]
                       ELSE repos
           /\ last' = Answer("replicate", "A", t.req.owner, t.req.repo, <<>>, "",
                             IF ok THEN 200 ELSE 500, IF ok THEN "" ELSE "git fetch failed", FALSE, FALSE)
    /\ UNCHANGED <<users, queue, closed, worker, cli, sent, clock, sessions, instance>>


-----------------------------------------------------------------------------

(* Specifications                                                          *)

\* the state after construction: empty stores, an open empty queue, idle
\* workers
Init ==
    /\ repos = [n \in Instances |-> <<>>]
    /\ users = [n \in Instances |-> <<>>]
    /\ queue = [n \in Instances |-> <<>>]
    /\ closed = [n \in Instances |-> FALSE]
    /\ worker = [n \in Instances |-> [w \in Workers |-> IdleWorker]]
    /\ cli = [n \in Instances |-> IdleCli("")]
    /\ sent = NoSent
    /\ last = NoAnswer
    /\ clock = 0
    /\ sessions = 0
    /\ instance = NoInstance
    /\ handler = [tmp |-> <<>>, thr |-> [h \in Handlers |-> IdleHandler]]

\* metadata documents posted to /api/repos/metadata
PostedReplica == Replica(<<"i">>, ExternalURL, "t1", "k1")

MetaBodies ==
    { [private |-> FALSE, replicas |-> <<>>, replica_of |-> NoReplicaOf],
      [private |-> TRUE, replicas |-> <<>>, replica_of |-> NoReplicaOf],
      [private |-> FALSE, replicas |-> <<>>, replica_of |-> ReplicaSource(<<"j">>, "k1")],
      [private |-> TRUE, replicas |-> <<PostedReplica>>, replica_of |-> ReplicaSource(<<"j">>, "k1")] }

\* Basic credentials of HTTP git requests
Creds == {<<>>} \cup {<<u, t>> : u \in People, t \in Tokens}

\* paths of git requests
SSHPath(id) == id[1] \o <<"/">> \o id[2] \o DotGit
URLPath(id) == <<"/">> \o id[1] \o <<"/">> \o id[2] \o DotGit

Verbs == {ReceivePack, UploadPack}

\* The git front ends of instance A with the operations that set up users,
\* repositories and metadata.
NextGit ==
    \/ \E u \in People : UserCreate("A", u)
    \/ \E u \in People, key \in SSHKeys : UserAddKey("A", u, key)
    \/ \E u \in People, t \in Tokens : UserGenerateToken("A", u, t)
    \/ \E id \in RepoIds : APICreateRepo("A", id[1], id[2])
    \/ \E id \in RepoIds, meta \in MetaBodies : APIPostMetadata("A", id[1], id[2], meta)
    \/ \E key \in SSHKeys, verb \in Verbs, id \in RepoIds : SSHSession("A", key, verb, SSHPath(id))
    \/ \E service \in Verbs, id \in RepoIds, creds \in Creds :
          HTTPInfoRefs("A", "GET", service, URLPath(id), creds)
    \/ \E service \in Verbs, id \in RepoIds, creds \in Creds :
          HTTPGitCommand("A", "POST", service, URLPath(id), creds)

SpecGit == Init /\ [][NextGit]_vars


\* Authorization headers of /replicate requests
Auths == {<<>>, <<"Basic", "t1">>} \cup {<<"Bearer", t>> : t \in Tokens}

\* metadata documents carried by /replicate requests
SentMetas ==
    { DefaultMeta,
      [private |-> TRUE, replicas |-> <<PostedReplica>>, replica_of |-> NoReplicaOf] }

\* bodies of /replicate requests: every well-formed body for the repositories
\* named with the metadata a pipeline sends, one whose metadata lists a
\* replica, and one without a bundle
ReplicateReqs ==
    { [owner |-> id[1], repo |-> id[2], instance_id |-> i, invitation_key |-> k,
       bundle |-> "r1", metadata |-> DefaultMeta] :
         id \in RepoIds, i \in InstIds, k \in Keys }
    \cup { [owner |-> NameAB, repo |-> NameC, instance_id |-> <<"i">>, invitation_key |-> "k1",
            bundle |-> b, metadata |-> m] : b \in {"", "r1"}, m \in SentMetas }

\* bodies of /register-replication requests
RegisterReqs ==
    { [owner |-> id[1], repo |-> id[2], replica_url |-> URLOf("A"), token |-> t,
       origin_instance_id |-> i] : id \in RepoIds, t \in Tokens, i \in InstIds }

\* the token and the invitation key an add-replica run draws
Drawn == {<<"t1", "k1">>, <<"t2", "k2">>}

\* Instance A with its management API open to any sender, its admin tool
\* and its pipeline; the peers it replicates to are outside
\* the model and answer as they like.
Next ==
    \/ \E u \in People : UserCreate("A", u)
    \/ \E u \in People, t \in Tokens : UserGenerateToken("A", u, t)
    \/ \E id \in RepoIds : APICreateRepo("A", id[1], id[2])
    \/ \E id \in RepoIds : APIDeleteRepo("A", id[1], id[2])
    \/ \E id \in RepoIds, meta \in MetaBodies : APIPostMetadata("A", id[1], id[2], meta)
    \/ \E req \in RegisterReqs : APIRegisterReplication("A", req)
    \/ \E auth \in Auths, req \in ReplicateReqs : APIReplicate("A", auth, req)
    \/ \E id \in RepoIds, d \in Drawn :
          AddReplicaLoad("A", id[1], id[2], ExternalURL, d[1], d[2])
    \/ AddReplicaRegister("A")
    \/ AddReplicaStore("A")
    \/ \E id \in RepoIds, i \in InstIds : RemoveReplica("A", id[1], id[2], i)
    \/ PeriodicSync("A")
    \/ \E w \in Workers : WorkerTake("A", w)
    \/ \E w \in Workers : WorkerPush("A", w)
    \/ \E w \in Workers : WorkerStore("A", w)

Spec == Init /\ [][Next]_vars


\* metadata documents that give a repository one enabled replica
ReplicatedMetas == {m \in SentMetas : m.replicas # <<>>}

\* what one worker of instance A does next
WorkerRun(w) ==
    \/ WorkerTake("A", w)
    \/ WorkerPush("A", w)
    \/ WorkerStore("A", w)
    \/ WorkerExit("A", w)

\* Shutdown of the pipeline of instance A: repositories are set up and jobs
\* queued while the channel is open, then Stop closes it. Producers act only
\* before Stop.
NextStop ==
    \/ ~closed["A"] /\ \E id \in RepoIds : APICreateRepo("A", id[1], id[2])
    \/ ~closed["A"] /\ \E id \in RepoIds, meta \in ReplicatedMetas :
                          APIPostMetadata("A", id[1], id[2], meta)
    \/ ~closed["A"] /\ PeriodicSync("A")
    \/ Stop("A")
    \/ \E w \in Workers : WorkerTake("A", w)
    \/ \E w \in Workers : WorkerPush("A", w)
    \/ \E w \in Workers : WorkerStore("A", w)
    \/ \E w \in Workers : WorkerExit("A", w)
    \/ StopReturn("A")

\* every worker goroutine is scheduled, and so is the caller of Stop
SpecStop ==
    /\ Init /\ [][NextStop]_vars
    /\ \A w \in Workers : WF_vars(WorkerRun(w))
    /\ WF_vars(StopReturn("A"))


\* one repository more than the queue holds, c/c being listed last
SyncRepoIds == RepoIds \cup {<<NameC, NameC>>}

\* The running server with its ticker: repositories are created through the
\* API and c/c is given a replica, the ticker fires, the workers run.
NextSync ==
    \/ \E id \in SyncRepoIds : APICreateRepo("A", id[1], id[2])
    \/ \E meta \in ReplicatedMetas : APIPostMetadata("A", NameC, NameC, meta)
    \/ SyncAll("A")
    \/ \E w \in Workers : WorkerTake("A", w)
    \/ \E w \in Workers : WorkerPush("A", w)
    \/ \E w \in Workers : WorkerStore("A", w)

\* the ticker keeps firing and every worker goroutine is scheduled
SpecSync ==
    /\ Init /\ [][NextSync]_vars
    /\ WF_vars(SyncAll("A"))
    /\ \A w \in Workers : WF_vars(WorkerRun(w))


\* Origin A and peer B. A holds the user a with an SSH key and the
\* repository a/b-c (user create, user add-key and POST /api/repos/create
\* have run on A); B holds nothing.
InitE2E ==
    /\ repos = [n \in Instances |->
                  IF n = "A" THEN handleCreateRepo(<<>>, <<>>, NameA, NameBC).repos ELSE <<>>]
    /\ users = [n \in Instances |->
                  IF n = "A"
                  THEN [AuthCreateUser(<<>>, NameA) EXCEPT ![NameA].keys = <<<<"ssh-rsa", "AAA1">>>>]
                  ELSE <<>>]
    /\ queue = [n \in Instances |-> <<>>]
    /\ closed = [n \in Instances |-> FALSE]
    /\ worker = [n \in Instances |-> [w \in Workers |-> IdleWorker]]
    /\ cli = [n \in Instances |-> IdleCli("")]
    /\ sent = NoSent
    /\ last = NoAnswer
    /\ clock = 0
    /\ sessions = 0
    /\ instance = NoInstance
    /\ handler = [tmp |-> <<>>, thr |-> [h \in Handlers |-> IdleHandler]]

\* add-replica a/b-c towards B on A, git sessions on A, the pipeline of A with
\* its ticker, and B's management API, open to anyone who reaches it
NextE2E ==
    \/ APICreateRepo("B", NameA, NameBC)
    \/ \E d \in Drawn : AddReplicaLoad("A", NameA, NameBC, URLOf("B"), d[1], d[2])
    \/ AddReplicaRegister("A")
    \/ AddReplicaStore("A")
    \/ \E key \in SSHKeys, verb \in Verbs :
          SSHSession("A", key, verb, SSHPath(<<NameA, NameBC>>))
    \/ SyncAll("A")
    \/ \E w \in Workers : WorkerTake("A", w)
    \/ \E w \in Workers : WorkerPush("A", w)
    \/ \E w \in Workers : WorkerStore("A", w)

\* B is reachable (its handlers answer), the ticker keeps firing and every
\* worker goroutine is scheduled
SpecE2E ==
    /\ InitE2E /\ [][NextE2E]_vars
    /\ WF_vars(SyncAll("A"))
    /\ \A w \in Workers : WF_vars(WorkerRun(w))


\* owner and repository names clients send: two that pass isValidName, one
\* that starts and one that ends with a dot
NameSamples == {NameA, NameBC, <<".", "a">>, <<"a", ".">>}

\* Instance A, holding user a and a/b-c, receives requests whose names are
\* drawn from NameSamples at the management API and over SSH.
NextNames ==
    \/ \E owner \in NameSamples, name \in NameSamples : APICreateRepo("A", owner, name)
    \/ \E owner \in NameSamples, name \in NameSamples : APIDeleteRepo("A", owner, name)
    \/ \E owner \in NameSamples, name \in NameSamples, meta \in {DefaultMeta} :
          APIPostMetadata("A", owner, name, meta)
    \/ \E key \in SSHKeys, verb \in Verbs, owner \in NameSamples, name \in NameSamples :
          SSHSession("A", key, verb, SSHPath(<<owner, name>>))

SpecNames == InitE2E /\ [][NextNames]_vars


\* The server's boot and runs of add-replica calling LoadOrCreate on one
\* storage root, as separate processes
NextInstance ==
    \/ \E c \in Callers : LoadRead(c)
    \/ \E c \in Callers : LoadCreate(c)
    \/ \E c \in Callers : LoadWrite(c)

SpecInstance == Init /\ [][NextInstance]_vars


\* a metadata document with three replica records at outside peers: the
\* second disabled, the first and the third enabled
JobReplicas ==
    << Replica(<<"j">>, ExternalURL, "t1", "k1"),
       [Replica(<<"j">>, ExternalURL, "t1", "k2") EXCEPT !.enabled = FALSE],
       Replica(<<"j">>, ExternalURL, "t2", "k2") >>

JobMeta == [private |-> TRUE, replicas |-> JobReplicas, replica_of |-> NoReplicaOf]

\* A holds a/b-c with the replicas of JobMeta: POST /api/repos/create and
\* POST /api/repos/metadata have been answered
InitJob ==
    /\ repos = [n \in Instances |->
                  IF n = "A"
                  THEN handleMetadataPost(handleCreateRepo(<<>>, <<>>, NameA, NameBC).repos, <<>>,
                                          NameA, NameBC, JobMeta).repos
                  ELSE <<>>]
    /\ users = [n \in Instances |-> <<>>]
    /\ queue = [n \in Instances |-> <<>>]
    /\ closed = [n \in Instances |-> FALSE]
    /\ worker = [n \in Instances |-> [w \in Workers |-> IdleWorker]]
    /\ cli = [n \in Instances |-> IdleCli("")]
    /\ sent = NoSent
    /\ last = Answer("metadata", "A", NameA, NameBC, <<>>, "", 200, "", FALSE, FALSE)
    /\ clock = 2
    /\ sessions = 0
    /\ instance = NoInstance
    /\ handler = [tmp |-> <<>>, thr |-> [h \in Handlers |-> IdleHandler]]

\* the ticker and the workers of A
NextJob ==
    \/ SyncAll("A")
    \/ \E w \in Workers : WorkerTake("A", w)
    \/ \E w \in Workers : WorkerPush("A", w)
    \/ \E w \in Workers : WorkerStore("A", w)

SpecJob == InitJob /\ [][NextJob]_vars


-----------------------------------------------------------------------------
\* Instance A serving two management requests at a time, /create and
\* /replicate for a-b/c and a/b-c. Before or between them a-b is given an
\* account and a token, a/b-c is created by a request served alone, an
\* origin registers its replication token for a/b-c, and a-b pushes to
\* a-b/c over HTTP.
NextRace ==
    \/ UserCreate("A", NameAB)
    \/ UserGenerateToken("A", NameAB, "t2")
    \/ APICreateRepo("A", NameA, NameBC)
    \/ APIRegisterReplication("A", [owner |-> NameA, repo |-> NameBC, replica_url |-> URLOf("A"),
                                     token |-> "t1", origin_instance_id |-> InstanceID("B")])
    \/ \E h \in Handlers, id \in RepoIds : CreateCheck(h, id[1], id[2])
    \/ \E h \in Handlers, id \in RepoIds, b \in Contents :
          ReplicateCheck(h, <<"Bearer", "t1">>,
                         [owner |-> id[1], repo |-> id[2], instance_id |-> InstanceID("B"),
                          invitation_key |-> "k1", bundle |-> b, metadata |-> DefaultMeta])
    \/ \E h \in Handlers : CreateRepoCheck(h)
    \/ \E h \in Handlers : CreateRepoInit(h)
    \/ \E h \in Handlers : ReplicateWrite(h)
    \/ \E h \in Handlers, fetchOK \in BOOLEAN : ReplicateApply(h, fetchOK)
    \/ HTTPGitCommand("A", "POST", ReceivePack, URLPath(<<NameAB, NameC>>), <<NameAB, "t2">>)

SpecRace == Init /\ [][NextRace]_vars


-----------------------------------------------------------------------------

\* A holds a/b-c with the record of one replica at an outside peer
\* (POST /api/repos/create and add-replica a/b-c http://x have run on A); B
\* holds a/b-c as a repository of its own, so that it accepts a registration
InitReplicas ==
    /\ repos = [n \in Instances |->
                  LET st == handleCreateRepo(<<>>, <<>>, NameA, NameBC).repos
                  IN  IF n = "A"
                      THEN SetMetadata(st, NameA, NameBC,
                              [DefaultMeta EXCEPT !.replicas =
                                  <<Replica(InstanceID("A"), ExternalURL, "t1", "k1")>>])
                      ELSE st]
    /\ users = [n \in Instances |-> <<>>]
    /\ queue = [n \in Instances |-> <<>>]
    /\ closed = [n \in Instances |-> FALSE]
    /\ worker = [n \in Instances |-> [w \in Workers |-> IdleWorker]]
    /\ cli = [n \in Instances |-> IdleCli("")]
    /\ sent = NoSent
    /\ last = NoAnswer
    /\ clock = 0
    /\ sessions = 0
    /\ instance = NoInstance
    /\ handler = [tmp |-> <<>>, thr |-> [h \in Handlers |-> IdleHandler]]

\* add-replica a/b-c towards B and remove-replica on A, and B's management
\* API, where repositories are created and deleted
NextReplicas ==
    \/ \E d \in Drawn : AddReplicaLoad("A", NameA, NameBC, URLOf("B"), d[1], d[2])
    \/ AddReplicaRegister("A")
    \/ AddReplicaStore("A")
    \/ \E i \in InstIds : RemoveReplica("A", NameA, NameBC, i)
    \/ \E id \in RepoIds : APICreateRepo("B", id[1], id[2])
    \/ \E id \in RepoIds : APIDeleteRepo("B", id[1], id[2])

SpecReplicas == InitReplicas /\ [][NextReplicas]_vars


-----------------------------------------------------------------------------

\* Shutdown of the pipeline of instance A as in NextStop, with the ticker
\* of StartPeriodicSync, which nothing stops, firing after Stop as it did
\* before. A process that has panicked takes no further step.
NextHalt ==
    \/ ~closed["A"] /\ \E id \in RepoIds : APICreateRepo("A", id[1], id[2])
    \/ ~closed["A"] /\ \E id \in RepoIds, meta \in ReplicatedMetas :
                          APIPostMetadata("A", id[1], id[2], meta)
    \/ ~closed["A"] /\ PeriodicSync("A")
    \/ Stop("A")
    \/ closed["A"] /\ last.op # "panic" /\ SyncAll("A")
    \/ last.op # "panic" /\ \E w \in Workers : WorkerTake("A", w)
    \/ last.op # "panic" /\ \E w \in Workers : WorkerPush("A", w)
    \/ last.op # "panic" /\ \E w \in Workers : WorkerStore("A", w)
    \/ last.op # "panic" /\ \E w \in Workers : WorkerExit("A", w)
    \/ last.op # "panic" /\ StopReturn("A")

SpecHalt == Init /\ [][NextHalt]_vars


-----------------------------------------------------------------------------

(* Claims about the git front ends, checked under SpecGit. Every operation *)
(* of SpecGit that writes a repository also answers a request, so in every *)
(* state the repository named by last is as the handler of that request    *)
(* found it, but for the refs an accepted push wrote.                      *)

GitOps == {"ssh", "http-rpc", "http-info"}

LastRepoExists == RepoExists(repos[last.inst], last.owner, last.repo)

LastMeta == GetMetadata(repos[last.inst], last.owner, last.repo)

\* C1: on the three transports a push request (verb git-receive-pack) to an
\* existing repository whose replica_of is set is refused without starting the
\* engine, whoever asks: exit status 1 with the read-only-replica message over
\* SSH, 403 (and no challenge, so not the owner check's 401) over HTTP.
C1_PushToReplicaRefused ==
    (last.op \in GitOps /\ last.verb = ReceivePack /\ LastRepoExists
        /\ LastMeta.replica_of # NoReplicaOf)
    => /\ ~last.engine
       /\ last.op = "ssh" =>
             /\ last.status = 1
             /\ last.msg = "permission denied: repository is a read-only replica"
       /\ last.op # "ssh" => last.status = 403 /\ ~last.challenge

\* the owner, authenticated, pushes to a replica over HTTP and gets 403
C1_Witness ==
    /\ last.op = "http-rpc" /\ last.verb = ReceivePack /\ last.status = 403
    /\ last.user # <<>> /\ last.user = last.owner
    /\ LastRepoExists /\ LastMeta.replica_of # NoReplicaOf

\* C2: on the three transports a fetch or ref advertisement for a private
\* repository by anybody but its owner (anonymous included) is refused without
\* starting the engine: exit status 1 over SSH, 401 with the Basic challenge
\* over HTTP.
C2_PrivateReadRefused ==
    (last.op \in GitOps /\ last.verb # ReceivePack /\ LastRepoExists
        /\ LastMeta.private /\ last.user # last.owner)
    => /\ ~last.engine
       /\ last.op = "ssh" => last.status = 1
       /\ last.op # "ssh" => last.status = 401 /\ last.challenge

\* an authenticated user who is not the owner fetches a private repository
\* over HTTP and gets 401
C2_Witness ==
    /\ last.op = "http-rpc" /\ last.verb = UploadPack /\ last.status = 401 /\ last.challenge
    /\ last.user # <<>> /\ last.user # last.owner
    /\ LastRepoExists /\ LastMeta.private

\* C3: the engine is started for a push only when the authenticated user is
\* the owner; a push to a repository that is no replica by anybody else
\* (another user or anonymous) is refused with 401 and the Basic challenge
\* over HTTP and with exit status 1 over SSH.
C3_OnlyOwnerPushes ==
    (last.op \in GitOps /\ last.verb = ReceivePack)
    => /\ last.engine => last.user = last.owner
       /\ (LastRepoExists /\ LastMeta.replica_of = NoReplicaOf /\ last.user # last.owner)
          => /\ ~last.engine
             /\ last.op = "ssh" => last.status = 1
             /\ last.op # "ssh" => last.status = 401 /\ last.challenge

\* an authenticated user who is not the owner pushes over SSH and is refused
C3_Witness ==
    /\ last.op = "ssh" /\ last.verb = ReceivePack /\ last.status = 1
    /\ last.msg = "permission denied: only owner can push"
    /\ last.user # <<>> /\ last.user # last.owner
    /\ LastRepoExists /\ LastMeta.replica_of = NoReplicaOf

-----------------------------------------------------------------------------
(* Claims about replication, checked under Spec.                           *)

\* C4: in every reachable state a repository whose metadata has replica_of
\* set has an empty replicas list.
C4_ReplicaHasNoReplicas ==
    \A n \in Instances : \A id \in DOMAIN repos[n] :
        repos[n][id].meta.replica_of # NoReplicaOf => repos[n][id].meta.replicas = <<>>

\* C5: a run of add-replica for a repository that exists with replica_of set
\* ends at once with the refusal: it sends no registration request, and the
\* store (metadata included) and the credentials are as before.
C5_AddReplicaOnReplicaRefused ==
    [][\A id \in RepoIds, d \in Drawn :
          (/\ AddReplicaLoad("A", id[1], id[2], ExternalURL, d[1], d[2])
           /\ RepoExists(repos["A"], id[1], id[2])
           /\ GetMetadata(repos["A"], id[1], id[2]).replica_of # NoReplicaOf)
          => /\ cli'["A"].pc = "idle"
             /\ cli'["A"].outcome = "error: cannot add replica to a replica repository"
             /\ ~cli'["A"].posted
             /\ repos' = repos /\ users' = users /\ sent' = sent]_vars

\* add-replica has been refused for a repository that exists as a replica
C5_Witness ==
    /\ cli["A"].outcome = "error: cannot add replica to a replica repository"
    /\ ~cli["A"].posted
    /\ \E id \in DOMAIN repos["A"] : repos["A"][id].meta.replica_of # NoReplicaOf

\* C6: the pipeline sends no /replicate request for a repository whose
\* metadata, as read when the request is built, has replica_of set.
C6_NoOnwardReplication ==
    sent.status # 0 => sent.metadata.replica_of = NoReplicaOf

\* what handleReplicate answers on instance A in the current state
ReplicateOnA(auth, req, fetchOK) == handleReplicate(repos["A"], users["A"], auth, req, fetchOK)

\* a rejection that leaves the store and the credentials of instance A as they are
RejectedUntouched(r) ==
    r.status # 200 /\ r.repos = repos["A"] /\ r.users = users["A"]

\* the Authorization header is missing, not Bearer, or its token is unknown
BadBearer(auth) ==
    \/ auth = <<>>
    \/ auth[1] # "Bearer"
    \/ ~ValidateAPIToken(users["A"], auth[2]).ok

\* the token is known, and its user lacks the prefix or is not the user the
\* body's owner, repo and instance_id format to
WrongUser(auth, req) ==
    /\ ~BadBearer(auth)
    /\ LET user == ValidateAPIToken(users["A"], auth[2]).user
       IN  \/ ~HasPrefix(user, ReplPrefix)
           \/ user # ReplicationUser(req.owner, req.repo, req.instance_id)

\* the body passes the field checks: the four names present, owner and repo
\* valid names, a bundle
WellFormed(req) ==
    /\ req.owner # <<>> /\ req.repo # <<>> /\ req.instance_id # <<>> /\ req.invitation_key # ""
    /\ isValidName(req.owner) /\ isValidName(req.repo)
    /\ req.bundle # ""

\* C7 as stated: a /replicate request with a missing, non-Bearer or unknown
\* credential is answered 401, one whose token's user lacks the prefix
\* replication- or differs from replication-<owner>-<repo>-<instance_id> is
\* answered 403, and either leaves no repository created, no bundle applied
\* and no metadata written.
C7_AsStated ==
    \A auth \in Auths, req \in ReplicateReqs, fetchOK \in BOOLEAN :
        LET r == ReplicateOnA(auth, req, fetchOK)
        IN  /\ BadBearer(auth) => r.status = 401 /\ RejectedUntouched(r)
            /\ WrongUser(auth, req) => r.status = 403 /\ RejectedUntouched(r)

\* C7: a /replicate request with a missing, non-Bearer or unknown credential
\* is answered 401; one whose token's user lacks the prefix replication- or
\* differs from replication-<owner>-<repo>-<instance_id> is answered 403 when
\* its body passes the field checks and 400 when it does not; in all these
\* cases no repository is created, no bundle applied and no metadata written.
C7_BadCredentialRejected ==
    \A auth \in Auths, req \in ReplicateReqs, fetchOK \in BOOLEAN :
        LET r == ReplicateOnA(auth, req, fetchOK)
        IN  /\ BadBearer(auth) => r.status = 401 /\ RejectedUntouched(r)
            /\ WrongUser(auth, req) =>
                  /\ RejectedUntouched(r)
                  /\ r.status = IF WellFormed(req) THEN 403 ELSE 400

\* a replication user's token has been presented for another repository and
\* the request answered 403 token mismatch
C7_Witness ==
    /\ last.op = "replicate" /\ last.status = 403
    /\ last.msg = "unauthorized: token mismatch"
    /\ \E u \in DOMAIN users["A"] : HasPrefix(u, ReplPrefix)


\* the triple a /replicate body names
Triple(req) == <<req.owner, req.repo, req.instance_id>>

\* C8: once register-replication has provisioned a fresh token for the
\* triple (owner, repo, origin instance) of its request, /replicate accepts
\* that token for no request whose body names another triple of valid names.
C8_TokenScopedToTriple ==
    [][\A reg \in RegisterReqs :
          (/\ APIRegisterReplication("A", reg)
           /\ last'.status = 200
           /\ ReplicationUser(reg.owner, reg.repo, reg.origin_instance_id) \notin DOMAIN users["A"]
           /\ reg.token \notin TokensInUse("A"))
          => \A req \in ReplicateReqs, fetchOK \in BOOLEAN :
                (WellFormed(req) /\ Triple(req) # <<reg.owner, reg.repo, reg.origin_instance_id>>)
                => handleReplicate(repos'["A"], users'["A"], <<"Bearer", reg.token>>,
                                   req, fetchOK).status # 200]_vars

\* C9: whenever /replicate answers a request with success, the metadata it
\* leaves for (owner, repo) has replica_of equal to the instance_id and the
\* invitation_key of that request.
C9_ReceiptRecordsSource ==
    \A auth \in Auths, req \in ReplicateReqs, fetchOK \in BOOLEAN :
        LET r == ReplicateOnA(auth, req, fetchOK)
        IN  r.status = 200 =>
               /\ RepoExists(r.repos, req.owner, req.repo)
               /\ GetMetadata(r.repos, req.owner, req.repo).replica_of
                     = ReplicaSource(req.instance_id, req.invitation_key)

\* a /replicate request has been answered with success and the repository
\* it names is a replica
C9_Witness ==
    /\ last.op = "replicate" /\ last.status = 200
    /\ LastRepoExists /\ LastMeta.replica_of # NoReplicaOf
    /\ repos[last.inst][<<last.owner, last.repo>>].refs = "r1"

\* the repository the body names exists on instance A with replica_of absent
NamesOrigin(req) ==
    /\ RepoExists(repos["A"], req.owner, req.repo)
    /\ GetMetadata(repos["A"], req.owner, req.repo).replica_of = NoReplicaOf

\* C10 as stated: a /replicate request for a repository that exists with
\* replica_of absent is answered 409 whatever token and invitation key it
\* carries, and refs and metadata stay as they are.
C10_AsStated ==
    \A auth \in Auths, req \in ReplicateReqs, fetchOK \in BOOLEAN :
        NamesOrigin(req) =>
            LET r == ReplicateOnA(auth, req, fetchOK)
            IN  r.status = 409 /\ r.repos = repos["A"]

\* C10: a /replicate request for a repository that exists with replica_of
\* absent is rejected whatever token and invitation key it carries, leaving
\* refs and metadata as they are: with 409 when it passes the credential and
\* field checks, with the 401, 400 or 403 of the check it fails otherwise.
C10_OriginNeverOverwritten ==
    \A auth \in Auths, req \in ReplicateReqs, fetchOK \in BOOLEAN :
        NamesOrigin(req) =>
            LET r == ReplicateOnA(auth, req, fetchOK)
            IN  /\ RejectedUntouched(r)
                /\ r.status = IF BadBearer(auth) THEN 401
                              ELSE IF ~WellFormed(req) THEN 400
                              ELSE IF WrongUser(auth, req) THEN 403
                              ELSE 409

\* a /replicate request for an origin repository has been answered 409, and
\* the repository is as it was created
C10_Witness ==
    /\ last.op = "replicate" /\ last.status = 409
    /\ LastRepoExists /\ LastMeta = DefaultMeta
    /\ repos[last.inst][<<last.owner, last.repo>>].refs = EmptyRefs


\* the repository the body names exists on instance A as a replica whose
\* stored invitation key is not the key of the body
NamesReplicaWithOtherKey(req) ==
    /\ RepoExists(repos["A"], req.owner, req.repo)
    /\ GetMetadata(repos["A"], req.owner, req.repo).replica_of # NoReplicaOf
    /\ GetMetadata(repos["A"], req.owner, req.repo).replica_of[1].invitation_key # req.invitation_key

C12_KeyKnownBeforeAccept ==
    \A auth \in Auths, req \in ReplicateReqs, fetchOK \in BOOLEAN :
        ReplicateOnA(auth, req, fetchOK).status = 200 =>
            /\ RepoExists(repos["A"], req.owner, req.repo)
            /\ GetMetadata(repos["A"], req.owner, req.repo).replica_of # NoReplicaOf
            /\ GetMetadata(repos["A"], req.owner, req.repo).replica_of[1].invitation_key
                  = req.invitation_key

\* C13: register-replication is refused exactly when the repository it names
\* exists with replica_of absent; in every other case it answers success and
\* leaves the user replication-<owner>-<repo>-<origin_instance_id> holding the
\* supplied token as its only API token.
C13_RegisterRefusedIffOrigin ==
    \A reg \in RegisterReqs :
        LET r == handleRegisterReplication(repos["A"], users["A"], reg)
            user == ReplicationUser(reg.owner, reg.repo, reg.origin_instance_id)
            origin == /\ RepoExists(repos["A"], reg.owner, reg.repo)
                      /\ GetMetadata(repos["A"], reg.owner, reg.repo).replica_of = NoReplicaOf
        IN  /\ origin <=> r.status # 200
            /\ ~origin => /\ user \in DOMAIN r.users
                          /\ r.users[user].tokens = <<reg.token>>


-----------------------------------------------------------------------------
(* Claims about the jobs git pushes enqueue, checked under SpecGit.        *)

\* C15: a push over HTTP that the engine completes (answer 200 of the
\* git-receive-pack handler) enqueues a replication job for (owner, name), as
\* a push over SSH does.
C15_HTTPPushEnqueues ==
    [][(/\ sessions' # sessions
        /\ last'.op = "http-rpc" /\ last'.verb = ReceivePack /\ last'.status = 200)
       => queue'[last'.inst] = Enqueue(queue[last'.inst], last'.owner, last'.repo)]_vars

\* C16: an SSH session enqueues the job (owner, name) when the verb is
\* git-receive-pack and the engine exited without error, in which case the
\* job is in the queue (or was dropped by a full queue) when exit status 0 is
\* sent; a failed push, a refused request and a fetch leave the queue as it is.
C16_SSHEnqueuesOnlyAfterPush ==
    [][(sessions' # sessions /\ last'.op = "ssh")
       => queue'[last'.inst] =
             IF last'.verb = ReceivePack /\ last'.engine /\ last'.status = 0
             THEN Enqueue(queue[last'.inst], last'.owner, last'.repo)
             ELSE queue[last'.inst]]_vars

\* exit status 0 has been sent for a push over SSH and its job is queued
C16_Witness ==
    /\ last.op = "ssh" /\ last.verb = ReceivePack /\ last.status = 0 /\ last.engine
    /\ queue[last.inst] = << <<last.owner, last.repo>> >>


-----------------------------------------------------------------------------
(* Claims about the pipeline, checked under Spec.                          *)

\* C17: Manager.Queue returns in every state: with fewer than QueueCap
\* pending jobs the job is appended, with QueueCap pending it is dropped and
\* the pending jobs stay as they are; the pending jobs never exceed QueueCap.
C17_QueueNeverBlocksNorOverflows ==
    \A n \in Instances :
        /\ Len(queue[n]) <= QueueCap
        /\ \A id \in RepoIds :
              Enqueue(queue[n], id[1], id[2]) =
                  IF Len(queue[n]) < QueueCap THEN queue[n] \o << <<id[1], id[2]>> >>
                  ELSE queue[n]

\* the queue is full after a sync that found a job pending: the sync queued
\* a/b-c, which is listed first, and dropped a-b/c
C17_Witness ==
    /\ Len(queue["A"]) = QueueCap
    /\ queue["A"][1] = <<NameAB, NameC>>
    /\ queue["A"][Len(queue["A"])] = <<NameA, NameBC>>
    /\ DOMAIN repos["A"] = RepoIds


\* C20: two workers never replicate the same repository at the same time: a
\* job for (owner, name) is taken up only when no other worker is between
\* the load and the store of a job for the same (owner, name).
C20_PerRepoOrdering ==
    \A n \in Instances : \A w1, w2 \in Workers :
        (w1 # w2 /\ worker[n][w1].pc = "push" /\ worker[n][w2].pc = "push")
        => <<worker[n][w1].owner, worker[n][w1].repo>> # <<worker[n][w2].owner, worker[n][w2].repo>>


-----------------------------------------------------------------------------
(* Claims about shutdown, checked under SpecStop.                          *)

\* Stop has returned to its caller on instance A
Stopped == last.op = "stop" /\ last.inst = "A"

\* C18: once Stop has closed the channel, a pending job leaves the queue only
\* by a worker taking it; Stop returns only when the queue is drained and
\* every worker has exited, a worker having exited only when idle; and this
\* state is reached eventually.
C18_StopDrainsAndReturns ==
    /\ [][closed["A"] /\ queue'["A"] # queue["A"]
            => /\ queue'["A"] = Tail(queue["A"])
               /\ \E w \in Workers :
                     /\ worker["A"][w].pc = "idle"
                     /\ worker'["A"][w] # ExitedWorker
                     /\ \A v \in Workers \ {w} : worker'["A"][v] = worker["A"][v]]_vars
    /\ [][\A w \in Workers :
              worker'["A"][w] = ExitedWorker /\ worker["A"][w] # ExitedWorker
                 => worker["A"][w] = IdleWorker /\ queue["A"] = <<>>]_vars
    /\ [](Stopped => queue["A"] = <<>> /\ \A w \in Workers : worker["A"][w] = ExitedWorker)
    /\ closed["A"] ~> Stopped

\* Stop has returned after a worker pushed a job to a replica
C18_Witness ==
    /\ Stopped /\ closed["A"]
    /\ \A w \in Workers : worker["A"][w] = ExitedWorker
    /\ queue["A"] = <<>>
    /\ sent.status # 0


-----------------------------------------------------------------------------
(* Claims about the periodic sync, checked under SpecSync.                 *)

\* the queue of A is empty and every worker of A is idle
Drained == queue["A"] = <<>> /\ \A w \in Workers : worker["A"][w] = IdleWorker

\* A holds the repository with an enabled replica
HasEnabledReplica(id) ==
    /\ RepoExists(repos["A"], id[1], id[2])
    /\ \E k \in 1..Len(GetMetadata(repos["A"], id[1], id[2]).replicas) :
          GetMetadata(repos["A"], id[1], id[2]).replicas[k].enabled

\* a worker of A is replicating the repository
InHand(id) ==
    \E w \in Workers :
       /\ worker["A"][w].pc = "push"
       /\ worker["A"][w].owner = id[1] /\ worker["A"][w].repo = id[2]

\* C19: the periodic sync recovers dropped work however many repositories
\* there are: even when the pipeline drains completely again and again, a
\* repository with an enabled replica, enqueued or dropped at a tick, is
\* eventually in the hands of a worker.
C19_PeriodicSyncRecovers ==
    []<>Drained => \A id \in SyncRepoIds : [](HasEnabledReplica(id) => <>InHand(id))


-----------------------------------------------------------------------------
(* The end-to-end claim, checked under SpecE2E.                            *)

\* add-replica has succeeded on A and a push to A has just been accepted
AddedAndPushed ==
    /\ cli["A"].pc = "idle" /\ cli["A"].outcome = "ok"
    /\ last.op = "ssh" /\ last.inst = "A" /\ last.verb = ReceivePack
    /\ last.status = 0 /\ last.engine

\* B holds a/b-c as a replica of A under the key of A's replica record
PeerHoldsReplica ==
    /\ RepoExists(repos["B"], NameA, NameBC)
    /\ \E k \in 1..Len(GetMetadata(repos["A"], NameA, NameBC).replicas) :
          LET replica == GetMetadata(repos["A"], NameA, NameBC).replicas[k]
          IN  /\ replica.url = URLOf("B")
              /\ GetMetadata(repos["B"], NameA, NameBC).replica_of =
                    ReplicaSource(InstanceID("A"), replica.invitation_key)

\* C14: with A holding a/b-c and B not holding it at the start, once
\* add-replica towards B has succeeded on A and a push to A is accepted, B
\* eventually holds a/b-c with replica_of naming A and the invitation key.
C14_EndToEnd == [](AddedAndPushed => <>PeerHoldsReplica)


-----------------------------------------------------------------------------
(* Claims about create-repo and the credential store, checked under Spec.  *)

\* C23: a create-repo call for a repository the instance does not hold
\* succeeds and creates it with the defaults; a second call for the same
\* (owner, name) is answered 409 and leaves repositories, metadata and users
\* as the first call left them, also when the repository has changed since.
C23_CreateTwice ==
    /\ [](\A id \in RepoIds :
            LET first == handleCreateRepo(repos["A"], users["A"], id[1], id[2])
                second == handleCreateRepo(first.repos, first.users, id[1], id[2])
            IN  first.status = 200 =>
                   /\ RepoExists(first.repos, id[1], id[2])
                   /\ second.status = 409
                   /\ second.repos = first.repos /\ second.users = first.users)
    /\ [][\A id \in RepoIds :
            (APICreateRepo("A", id[1], id[2]) /\ RepoExists(repos["A"], id[1], id[2]))
               => last'.status = 409 /\ repos' = repos /\ users' = users]_vars

\* a second create answered 409 for a repository whose metadata was changed
\* after the first
C23_Witness ==
    /\ last.op = "create" /\ last.status = 409 /\ last.inst = "A"
    /\ RepoExists(repos["A"], last.owner, last.repo)
    /\ GetMetadata(repos["A"], last.owner, last.repo) # DefaultMeta

\* C24: in every reachable state of the credential store, validating a
\* token answers the user u exactly when the token is in u's token list.
C24_ValidateIffListed ==
    \A t \in Tokens, u \in DOMAIN users["A"] :
       (ValidateAPIToken(users["A"], t) = AuthOK(u)) <=> (t \in SeqRange(users["A"][u].tokens))

\* C29: a /replicate request the pipeline has sent carries the sender's own
\* instance id and metadata without replica records, and no token, key or
\* URL of a peer other than the record pushed to: in particular not the
\* invitation key of the repository's own origin.
C29_OnlyOwnRecordSent ==
    sent # NoSent =>
       /\ sent.metadata.replicas = <<>>
       /\ sent.instance_id = InstanceID(sent.from)
       /\ sent.metadata.replica_of = NoReplicaOf

\* the replica records of a/b-c on A, none when A does not hold it
OriginReplicas(st) ==
    IF RepoExists(st, NameA, NameBC) THEN GetMetadata(st, NameA, NameBC).replicas ELSE <<>>

\* C30: add-replica on A writes nothing while it registers with the peer; it
\* goes on to store the record exactly when the peer answered success and
\* ends with a failure, the metadata untouched, otherwise; and a record is
\* added to the origin's metadata only by that store step, which appends
\* {url, token, invitation_key, enabled} to the metadata loaded.
C30_RecordOnlyAfterPeerAccepts ==
    /\ [][(cli["A"].pc = "register" /\ cli'["A"] # cli["A"])
            => /\ repos' = repos
               /\ cli'["A"].pc = "store" <=> (last'.op = "register" /\ last'.status = 200)
               /\ cli'["A"].pc # "store"
                     => cli'["A"].pc = "idle" /\ cli'["A"].outcome = "replica registration failed"]_vars
    /\ [][Len(OriginReplicas(repos'["A"])) > Len(OriginReplicas(repos["A"]))
            => /\ cli["A"].pc = "store" /\ cli'["A"].outcome = "ok"
               /\ OriginReplicas(repos'["A"]) =
                     Append(cli["A"].meta.replicas,
                            [instance_id |-> InstanceID("A"), url |-> cli["A"].url,
                             token |-> cli["A"].token, invitation_key |-> cli["A"].key,
                             enabled |-> TRUE, last_synced |-> 0])]_vars

\* add-replica has ended with the record stored after B accepted the
\* registration
C30_Witness ==
    /\ cli["A"].pc = "idle" /\ cli["A"].outcome = "ok"
    /\ Len(OriginReplicas(repos["A"])) = 1
    /\ OriginReplicas(repos["A"])[1].url = URLOf("B")
    /\ OriginReplicas(repos["A"])[1].enabled
    /\ \E u \in DOMAIN users["B"] :
          users["B"][u].tokens = <<OriginReplicas(repos["A"])[1].token>>

-----------------------------------------------------------------------------
(* Claims about what the pushing client sees, checked under SpecE2E.       *)

\* the owner's push over SSH to a/b-c on A passes the key check and the
\* access policy, and a session is left
PushAdmitted(key) ==
    /\ sessions < MaxSessions
    /\ ValidateSSHKey(users["A"], key).ok
    /\ RepoExists(repos["A"], NameA, NameBC)
    /\ AccessDecision(GetMetadata(repos["A"], NameA, NameBC), TRUE,
                      ValidateSSHKey(users["A"], key).user, NameA) = "allow"

\* C21: replication never changes what the pushing client is told. Whatever
\* the queue holds (room left or full, so that the job is dropped) and
\* whatever the workers and replicas have done, an admitted push can be
\* answered exit status 0; a session in which the engine ran is answered 0 or
\* the engine's own failure, nothing else; and no step of the pipeline
\* produces an answer to an SSH client.
C21_ReplicationNeverSurfaced ==
    /\ [](\A key \in SSHKeys :
            PushAdmitted(key) =>
               ENABLED (/\ SSHSession("A", key, ReceivePack, SSHPath(<<NameA, NameBC>>))
                        /\ last'.status = 0))
    /\ [][(sessions' # sessions /\ last'.op = "ssh" /\ last'.engine)
             => \/ last'.status = 0 /\ last'.msg = ""
                \/ last'.status = 1 /\ last'.msg = "command error" /\ queue' = queue]_vars
    /\ [][(last' # last /\ last'.op = "ssh") => sessions' # sessions]_vars

\* a push answered exit status 0 with the queue of A full after it, a replica
\* of A having refused a replication before
C21_Witness ==
    /\ last.op = "ssh" /\ last.inst = "A" /\ last.verb = ReceivePack
    /\ last.status = 0 /\ last.engine
    /\ Len(queue["A"]) = QueueCap
    /\ sent.status \notin {0, 200}


-----------------------------------------------------------------------------
(* The claim about name validation, checked under SpecNames.               *)

\* the last request was refused for its names, before the store was asked
NameRejected ==
    IF last.op = "ssh"
    THEN last.status = 1 /\ last.msg = "invalid repo path"
    ELSE last.status = 400

\* C22: a request to create, delete, post metadata or run a git command over
\* SSH whose owner or repository name fails the name rule is rejected for
\* its names, before the store is asked about them.
C22_NamesValidatedAtIngress ==
    (/\ last.op \in {"create", "delete", "metadata", "ssh"}
     /\ ~(isValidName(last.owner) /\ isValidName(last.repo)))
       => NameRejected


-----------------------------------------------------------------------------
(* Claims about HTTP authentication, checked under SpecGit.                *)

\* the credentials carry a known token of the user they name
GoodCreds(au, creds) ==
    /\ creds # <<>>
    /\ ValidateAPIToken(au, creds[2]) = AuthOK(creds[1])

\* C25: the HTTP transport authenticates a request as its Basic username
\* when the password is a token that validates to that username, and as
\* nobody (anonymous) otherwise: no credentials, an unknown token, or a token
\* of another user. A request handled by the transport is answered for that
\* user.
C25_HTTPAuthentication ==
    /\ [](\A creds \in Creds :
            getAuthenticatedUser(users["A"], creds) =
               IF GoodCreds(users["A"], creds) THEN creds[1] ELSE <<>>)
    /\ [][\A service \in Verbs, id \in RepoIds, creds \in Creds :
            (\/ HTTPInfoRefs("A", "GET", service, URLPath(id), creds)
             \/ HTTPGitCommand("A", "POST", service, URLPath(id), creds))
               => last'.user = IF GoodCreds(users["A"], creds) THEN creds[1] ELSE <<>>]_vars

\* a request for a private repository served to its authenticated owner
C25_Witness ==
    /\ last.op \in {"http-info", "http-rpc"} /\ last.status = 200
    /\ last.user # <<>> /\ last.user = last.owner
    /\ LastRepoExists /\ LastMeta.private


\* C26: a read request on the HTTP transport (service git-upload-pack) for
\* an existing repository, carrying Basic credentials that fail
\* authentication, is answered 401 with a challenge, be the repository
\* public or private.
C26_BadCredentialsChallenged ==
    [][\A id \in RepoIds, creds \in Creds :
         (/\ \/ HTTPInfoRefs("A", "GET", UploadPack, URLPath(id), creds)
             \/ HTTPGitCommand("A", "POST", UploadPack, URLPath(id), creds)
          /\ creds # <<>> /\ ~GoodCreds(users["A"], creds)
          /\ RepoExists(repos["A"], id[1], id[2]))
            => last'.status = 401 /\ last'.challenge]_vars


-----------------------------------------------------------------------------
(* The claim about the instance id, checked under SpecInstance.            *)

\* the caller's last call of LoadOrCreate has returned an id
Returned(c) == instance.proc[c].pc = "idle" /\ instance.proc[c].ret \notin {NoReturn, LoadError}

\* C27: whatever the sequence or interleaving of LoadOrCreate calls on one
\* storage root, all calls that return an id return the same one, and once
\* no call is writing it is the id instance.json holds.
C27_OneInstanceId ==
    /\ \A c, d \in Callers : Returned(c) /\ Returned(d) => instance.proc[c].ret = instance.proc[d].ret
    /\ \A c \in Callers :
          (Returned(c) /\ \A d \in Callers : instance.proc[d].pc = "idle")
             => instance.proc[c].ret = instance.file


-----------------------------------------------------------------------------
(* Claims about one replication job, checked under SpecJob.                *)

\* worker w of A is inside a job and takes a step
JobStep(w) == worker["A"][w].pc = "push" /\ worker'["A"][w] # worker["A"][w]

\* C28: within a job every replica of the list gets its turn, a failed push
\* included: each turn moves on to the next record, changing nothing but
\* last_synced of the record in turn, which is set to now when the record is
\* enabled and the push returned 200 and is left as loaded otherwise; the
\* job ends only after the last record, by writing the metadata so built.
C28_FailedPushDoesNotAbort ==
    [][\A w \in Workers :
         JobStep(w) =>
            LET s == worker["A"][w]
                t == worker'["A"][w]
                k == s.idx
            IN  IF k <= Len(s.meta.replicas)
                THEN /\ t.pc = "push" /\ t.idx = k + 1
                     /\ Len(t.meta.replicas) = Len(s.meta.replicas)
                     /\ \A j \in 1..Len(s.meta.replicas) :
                           j # k => t.meta.replicas[j] = s.meta.replicas[j]
                     /\ [t.meta.replicas[k] EXCEPT !.last_synced = 0]
                           = [s.meta.replicas[k] EXCEPT !.last_synced = 0]
                     /\ t.meta.replicas[k].last_synced =
                           IF /\ s.meta.replicas[k].enabled
                              /\ RepoExists(repos["A"], s.owner, s.repo)
                              /\ sent'.status = 200
                           THEN clock
                           ELSE s.meta.replicas[k].last_synced
                     /\ repos' = repos
                ELSE /\ t = IdleWorker
                     /\ RepoExists(repos["A"], s.owner, s.repo)
                           => GetMetadata(repos'["A"], s.owner, s.repo) = s.meta]_vars

\* a finished job whose first push failed and whose third succeeded: the
\* stored metadata has last_synced set for the third record only
C28_Witness ==
    /\ RepoExists(repos["A"], NameA, NameBC)
    /\ \A w \in Workers : worker["A"][w] = IdleWorker
    /\ queue["A"] = <<>>
    /\ LET replicas == GetMetadata(repos["A"], NameA, NameBC).replicas
       IN  /\ Len(replicas) = 3
           /\ replicas[1].enabled /\ replicas[1].last_synced = 0
           /\ ~replicas[2].enabled /\ replicas[2].last_synced = 0
           /\ replicas[3].enabled /\ replicas[3].last_synced # 0
    /\ sent.status = 200 /\ sent.token = "t2"


-----------------------------------------------------------------------------
(* Claims about writers racing on one repository's metadata, checked       *)
(* under Spec.                                                             *)

\* C31: the final write of a job stores the metadata the job loaded at its
\* start, with the last_synced values the job set, whatever the store holds
\* for the repository by then: what another writer wrote in between is
\* overwritten.
C31_FinalWriteIsSnapshot ==
    [][\A w \in Workers :
         LET s == worker["A"][w]
         IN  (/\ s.pc = "push" /\ s.idx > Len(s.meta.replicas)
              /\ worker'["A"][w] = IdleWorker
              /\ RepoExists(repos["A"], s.owner, s.repo))
                => /\ RepoExists(repos'["A"], s.owner, s.repo)
                   /\ GetMetadata(repos'["A"], s.owner, s.repo) = s.meta]_vars

\* a lost update: the last push carried the metadata as the store held it
\* when the push was sent, and no job is in hand; the store now holds a
\* document a job wrote (last_synced is set) whose private flag is not the
\* one the store held at that push, so the job's final write has put back
\* the snapshot it loaded before the flag was changed
C31_Witness ==
    /\ sent.from = "A" /\ sent.status = 200
    /\ \A w \in Workers : worker["A"][w] = IdleWorker
    /\ RepoExists(repos["A"], sent.owner, sent.repo)
    /\ LET m == GetMetadata(repos["A"], sent.owner, sent.repo)
       IN  /\ Len(m.replicas) > 0
           /\ m.replicas[1].last_synced # 0
           /\ m.private # sent.metadata.private


-----------------------------------------------------------------------------
(* Claims about failed and concurrent /replicate requests, checked under   *)
(* Spec.                                                                   *)

\* C32: a /replicate request answered with an error leaves the repository
\* store of the instance as it was before the request.
C32_ErrorLeavesStoreUnchanged ==
    [][\A auth \in Auths, req \in ReplicateReqs :
         (APIReplicate("A", auth, req) /\ last'.status # 200)
            => repos'["A"] = repos["A"]]_vars


-----------------------------------------------------------------------------
(* Claims about requests served concurrently, checked under SpecRace.      *)

\* C33: while a /replicate request is being processed for a repository it
\* has created (no /create request naming it), a push to that repository
\* over HTTP by its owner, authenticated with the owner's token, is refused
\* with 403 as a push to a read-only replica, the engine not being started.
C33_NoWindowAsOrigin ==
    [][\A id \in RepoIds, u \in People :
         (/\ HTTPGitCommand("A", "POST", ReceivePack, URLPath(id), <<u, "t2">>)
          /\ getAuthenticatedUser(users["A"], <<u, "t2">>) = id[1]
          /\ \A g \in Handlers :
                handler.thr[g].op = "create" =>
                   <<handler.thr[g].req.owner, handler.thr[g].req.repo>> # id
          /\ \E h \in Handlers :
                /\ handler.thr[h].op = "replicate"
                /\ handler.thr[h].pc \in {"write", "fetch"}
                /\ handler.thr[h].created
                /\ handler.thr[h].req.owner = id[1] /\ handler.thr[h].req.repo = id[2])
            => last'.status = 403 /\ ~last'.engine]_vars


\* C34: the bundle a /replicate request fetches into the repository it names
\* is the bundle the request carried, and when a request removes its bundle
\* file every other request that has written its file and not yet fetched
\* from it still finds that file.
C34_OwnBundleApplied ==
    [][\A h \in Handlers :
         (handler.thr[h].pc = "fetch" /\ handler'.thr[h].pc = "done") =>
            LET t == handler.thr[h]
            IN  /\ handler'.thr[h].status = 200 =>
                      repos'["A"][<<t.req.owner, t.req.repo>>].refs = t.req.bundle
                /\ \A g \in Handlers \ {h} :
                      handler.thr[g].pc = "fetch" =>
                         bundlePath(handler.thr[g].req.owner, handler.thr[g].req.repo)
                            \in DOMAIN handler'.tmp]_vars


\* C38: of two /create requests for the same owner and name that have both
\* been answered, at most one was answered with success.
C38_OneCreateSucceeds ==
    \A g \in Handlers, h \in Handlers :
        (/\ g # h
         /\ handler.thr[g].op = "create" /\ handler.thr[g].pc = "done"
         /\ handler.thr[h].op = "create" /\ handler.thr[h].pc = "done"
         /\ handler.thr[g].req = handler.thr[h].req)
        => ~(handler.thr[g].status = 200 /\ handler.thr[h].status = 200)


-----------------------------------------------------------------------------
(* Claims about the records add-replica stores, checked under Spec (the    *)
(* peer's side of the registration) and under SpecReplicas.                *)

\* C35: add-replica stores the token its registration request carried, and
\* stores it when the peer answered success. So whenever the peer answers a
\* registration that carries a token no user holds yet with success, that
\* token afterwards validates on the peer as
\* replication-<owner>-<repo>-<origin_instance_id>.
C35_StoredTokenValidates ==
    [][\A req \in RegisterReqs :
         (/\ APIRegisterReplication("A", req)
          /\ last'.status = 200
          /\ req.token \notin TokensInUse("A"))
            => ValidateAPIToken(users'["A"], req.token)
                  = AuthOK(ReplicationUser(req.owner, req.repo, req.origin_instance_id))]_vars


\* C36: remove-replica with an instance id takes exactly one record out of
\* the repository's replicas and leaves the other records, in their order,
\* and the other metadata fields as they are.
C36_RemoveTakesOneRecord ==
    [][\A i \in InstIds :
         RemoveReplica("A", NameA, NameBC, i) =>
            LET before == GetMetadata(repos["A"], NameA, NameBC)
                after == GetMetadata(repos'["A"], NameA, NameBC)
            IN  /\ Len(after.replicas) = Len(before.replicas) - 1
                /\ \A k \in 1..Len(before.replicas) :
                      before.replicas[k].instance_id # i =>
                         \E j \in 1..Len(after.replicas) : after.replicas[j] = before.replicas[k]
                /\ [after EXCEPT !.replicas = <<>>] = [before EXCEPT !.replicas = <<>>]]_vars


-----------------------------------------------------------------------------
(* Claims about the job channel, checked under SpecHalt and SpecJob.       *)

\* C37: no enqueue faults the process: Manager.Queue returns normally, the
\* channel open or closed, so the process never ends in a panic.
C37_EnqueueNeverPanics == last.op # "panic"


\* C39: the channel changes only by an accepted job being appended, the jobs
\* waiting staying as they are, or by its first job being taken, and then by
\* one idle worker, no other worker changing; a worker enters a job only by
\* taking the first job of the channel, which leaves the channel with that
\* step, and the job it is in is that one; a worker in a job stays in that
\* job, moving forward through its replicas, until the job ends; and the
\* jobs in hand are never more than the workers.
C39_JobTakenOnce ==
    [][LET q == queue["A"]
           InJob(ws) == {w \in Workers : ws[w].pc = "push"}
       IN  /\ queue'["A"] # q =>
                \/ /\ Len(queue'["A"]) > Len(q)
                   /\ SubSeq(queue'["A"], 1, Len(q)) = q
                   /\ worker' = worker
                \/ /\ q # <<>> /\ queue'["A"] = Tail(q)
                   /\ \E w \in Workers :
                         /\ worker["A"][w].pc = "idle"
                         /\ \A v \in Workers \ {w} : worker'["A"][v] = worker["A"][v]
           /\ \A w \in Workers :
                 (worker["A"][w].pc = "idle" /\ worker'["A"][w].pc = "push") =>
                    /\ q # <<>> /\ queue'["A"] = Tail(q)
                    /\ <<worker'["A"][w].owner, worker'["A"][w].repo>> = <<Head(q)[1], Head(q)[2]>>
           /\ \A w \in Workers :
                 (worker["A"][w].pc = "push" /\ worker'["A"][w].pc = "push") =>
                    /\ worker'["A"][w].owner = worker["A"][w].owner
                    /\ worker'["A"][w].repo = worker["A"][w].repo
                    /\ worker'["A"][w].idx >= worker["A"][w].idx
           /\ Cardinality(InJob(worker'["A"])) <= NumWorkers]_vars

\* two jobs were accepted and each has been taken by a worker of its own:
\* the channel is empty and both workers are in a job
C39_Witness ==
    /\ queue["A"] = <<>>
    /\ \A w \in Workers : worker["A"][w].pc = "push"


=============================================================================
